---- MODULE Spec2Model ----
(***************************************************************************)
(* Model of staticimp: the placeholder rendering engine                     *)
(* (src/src/rendertemplate.rs) and the entry-processing pipeline            *)
(* (src/src/staticimp.rs).                                                  *)
(*                                                                         *)
(* Strings are sequences of bytes (naturals below 256), as Rust's &str is   *)
(* a UTF-8 byte slice: the tokenizer's find/split_at work on byte indexes   *)
(* and the base85 codec works on bytes.                                     *)
(***************************************************************************)
EXTENDS Integers, Sequences, FiniteSets, TLC

VARIABLES
    template,     \* render_str / SimpleParser::new argument `text`
    resolver,     \* render_str argument `render`: the placeholder resolver
    text,         \* SimpleParser.text: the text still to be parsed
    tokens,       \* the tokens SimpleParser::next has returned so far
    parserEnded,  \* SimpleParser::next has returned None
    rendered,     \* the result of render_str(template, resolver)
    overflowChecks, \* the build checks integer overflow (debug profile)
    b85Bytes,     \* base85::encode argument `value`
    b85Text,      \* base85::decode argument `value`
    b85Out,       \* the result of base85::decode(b85Text)
    entry,        \* the NewEntry of the request (self in process_fields)
    fconf,        \* the FieldConfig (conf in process_fields)
    stage,        \* where process_fields is: the stage to run next
    calls,        \* the stage methods process_fields has called, in order
    submitted,    \* the field map as submitted (before process_fields)
    extraOrder,   \* the order in which generate_fields iterated over extra
    generated,    \* the field map after generate_fields
    presult,      \* the result of process_fields
    bentry,       \* GitlabAPI::new_entry argument `entry`
    econf,        \* GitlabAPI::new_entry argument `entry_conf`
    tableOk,      \* MarkdownTable::as_markdown succeeds for this entry
    serializeOk,  \* serde serializes the field map of this entry
    apiStage,     \* where GitlabAPI::new_entry is
    record,       \* git_entry: the result of entry_conf.render(entry)
    apiResult,    \* what new_entry does after rendering
    templatesRendered,  \* the templates EntryConfig::render has rendered
    askedName,    \* the name a NewEntry is asked to resolve
    resolution,   \* what the NewEntry returned for it
    writeStage,   \* where new_file / new_file_mr is
    gitCalls,     \* the GitAPI calls made so far, with their outcomes
    writeResult,  \* what new_file / new_file_mr returned
    hrequest,     \* post_comment_handler: how the request parses
    hbackend,     \* the {backend} segment of the request path
    hentryType,   \* the {entry_type} segment of the request path
    hstage,       \* where post_comment_handler is
    response,     \* what post_comment_handler returned
    clientCalls,  \* the BackendConfig::new_client calls made, with results
    reqs          \* the requests being handled concurrently

parseVars == <<template, resolver, text, tokens, parserEnded, rendered>>
b85Vars == <<overflowChecks, b85Bytes, b85Text, b85Out>>

fieldVars ==
    <<entry, fconf, stage, calls, submitted, extraOrder, generated, presult>>

buildVars ==
    <<bentry, econf, tableOk, serializeOk, apiStage, record, apiResult,
      templatesRendered>>

resolveVars == <<askedName, resolution>>

writeVars == <<writeStage, gitCalls, writeResult>>

handlerVars ==
    <<hrequest, hbackend, hentryType, hstage, response, clientCalls>>

dispatchVars == <<reqs>>

vars ==
    <<parseVars, b85Vars, fieldVars, buildVars, resolveVars, writeVars,
      handlerVars, dispatchVars>>

(***************************************************************************)
(* Bounds of the model                                                      *)
(***************************************************************************)
MaxTemplateLen == 5
MaxBytes == 9
MaxSymbols == 11
MaxTransforms == 2

(***************************************************************************)
(* Characters                                                               *)
(***************************************************************************)
LBRACE == 123
RBRACE == 125

\* Option<T>::None, and the value of a result that has not been computed
None == [none |-> TRUE]
Unset == [unset |-> TRUE]

\* a computed value (kept apart from Unset)
Val(v) == [val |-> v]

\* all strings over `chars` of at most n bytes
Strings(chars, n) == UNION {[1..k -> chars] : k \in 0..n}

Min(S) == CHOOSE m \in S : \A o \in S : m <= o

\* str::find(ch): zero-based byte index of the first ch in s, or -1 (None)
find(s, ch) ==
    LET hits == {i \in 1..Len(s) : s[i] = ch}
    IN  IF hits = {} THEN -1 ELSE Min(hits) - 1

\* &s[n..]
SliceFrom(s, n) == SubSeq(s, n + 1, Len(s))

\* &s[begin..end]
Slice(s, begin, end) == SubSeq(s, begin + 1, end)

(***************************************************************************)
(* SimpleToken and SimpleParser                                             *)
(***************************************************************************)
Literal(s) == [kind |-> "Literal", s |-> s]
Placeholder(s) == [kind |-> "Placeholder", s |-> s]
Rendered(s) == [kind |-> "Rendered", s |-> s]
Unterminated(s) == [kind |-> "Unterminated", s |-> s]

is_placeholder(tok) == tok.kind = "Placeholder"

raw_ref(tok) == tok.s

\* faulty variant: collect_raw's raw_ref in place of display_ref
display_ref_raw(tok) == tok.s

display_ref(tok) ==
    IF tok.kind \in {"Literal", "Rendered"} THEN tok.s ELSE <<>>

\* the helpers return the chunk and the new self.text
chunk(t, len) == [ret |-> Slice(t, 0, len), text |-> SliceFrom(t, len)]

\* faulty variant: the closing brace is not skipped
chunk_skip_noskip(t, begin, end, skip_after) ==
    [ret |-> Slice(Slice(t, 0, end), begin, end), text |-> SliceFrom(t, end)]

chunk_skip(t, begin, end, skip_after) ==
    [ret |-> Slice(Slice(t, 0, end), begin, end),
     text |-> SliceFrom(SliceFrom(t, end), skip_after)]

\* faulty variant: the remainder is returned but not cleared
rest_keeps(t) == [ret |-> t, text |-> t]

rest(t) == [ret |-> t, text |-> <<>>]

\* faulty variant: the opening brace is not skipped
rest_skip_noskip(t, n) == [ret |-> t, text |-> <<>>]

rest_skip(t, n) == [ret |-> SliceFrom(t, n), text |-> <<>>]

\* SimpleParser::next on the remaining text t: the item returned (a token or
\* None) and the new remaining text
SimpleParserNext(t) ==
    IF t = <<>> THEN [item |-> None, text |-> t]
    ELSE IF t[1] = LBRACE
    THEN LET i == find(t, RBRACE)
         IN  IF i # -1
             THEN LET c == chunk_skip(t, 1, i, 1)
                  IN  [item |-> Placeholder(c.ret), text |-> c.text]
             ELSE LET c == rest_skip(t, 1)
                  IN  [item |-> Unterminated(c.ret), text |-> c.text]
    ELSE LET i == find(t, LBRACE)
         IN  IF i # -1
             THEN LET c == chunk(t, i)
                  IN  [item |-> Literal(c.ret), text |-> c.text]
             ELSE LET c == rest(t)
                  IN  [item |-> Literal(c.ret), text |-> c.text]

(***************************************************************************)
(* Resolvers (implementations of Render<&str, Option<..>>)                  *)
(***************************************************************************)
\* what a resolver returns: None, or a value that is borrowed or owned
SomeBorrowed(s) == [none |-> FALSE, owned |-> FALSE, val |-> s]
SomeOwned(s) == [none |-> FALSE, owned |-> TRUE, val |-> s]

\* Render for &HashMap<K, Y>: HashMap::get
HashMapRender(map, x) ==
    IF x \in DOMAIN map THEN SomeBorrowed(map[x]) ELSE None

MapResolver(map) == [kind |-> "HashMap", map |-> map]

\* str::starts_with
starts_with(s, prefix) ==
    Len(s) >= Len(prefix) /\ SubSeq(s, 1, Len(prefix)) = prefix

\* faulty variant: rsplit_once, the split is at the last ch
split_once_last(s, ch) ==
    LET hits == {i \in 1..Len(s) : s[i] = ch}
        i == CHOOSE m \in hits : \A o \in hits : m >= o
    IN  IF hits = {} THEN None
        ELSE [none |-> FALSE, lhs |-> SubSeq(s, 1, i - 1),
              rhs |-> SubSeq(s, i + 1, Len(s))]

\* str::split_once(ch): the parts before and after the first ch, or None
split_once(s, ch) ==
    LET i == find(s, ch)
    IN  IF i = -1 THEN None
        ELSE [none |-> FALSE, lhs |-> Slice(s, 0, i), rhs |-> SliceFrom(s, i + 1)]

AT == 64
DOT == 46
S_at_id == <<64, 105, 100>>  \* "@id"
S_at_timestamp == <<64, 116, 105, 109, 101, 115, 116, 97, 109, 112>>  \* "@timestamp"
S_at_date == <<64, 100, 97, 116, 101, 58>>  \* "@date:"
S_at_branch == <<64, 98, 114, 97, 110, 99, 104>>  \* "@branch"
S_fields == <<102, 105, 101, 108, 100, 115>>  \* "fields"
S_params == <<112, 97, 114, 97, 109, 115>>  \* "params"

\* NewEntry::render_date: self.timestamp.format(fmt). The formatting is
\* chrono's: the bytes of fmt are copied, and a '%' with the byte after it
\* (a specifier) is replaced by that part of the timestamp, for which the
\* entry's pre-rendered timestamp stands.
RECURSIVE render_date(_, _)
render_date(e, fmt) ==
    IF fmt = <<>> THEN <<>>
    ELSE IF fmt[1] = 37 /\ Len(fmt) >= 2
    THEN e.timestamp_str \o render_date(e, SliceFrom(fmt, 2))
    ELSE <<fmt[1]>> \o render_date(e, SliceFrom(fmt, 1))

\* faulty variant: an unknown '@' name is unresolved, and "@branch" must be
\* the whole name
NewEntryRender_strictAt(e, placeholder) ==
    IF starts_with(placeholder, <<AT>>)
    THEN IF placeholder = S_at_id THEN SomeBorrowed(e.uid)
         ELSE IF placeholder = S_at_timestamp
         THEN SomeBorrowed(e.timestamp_str)
         ELSE IF starts_with(placeholder, S_at_date)
         THEN SomeOwned(render_date(e, SliceFrom(placeholder, 6)))
         ELSE IF placeholder = S_at_branch
         THEN SomeBorrowed(e.branch)
         ELSE None
    ELSE None

\* Render<&str, Option<Cow<str>>> for &NewEntry
NewEntryRender(e, placeholder) ==
    IF starts_with(placeholder, <<AT>>)
    THEN IF placeholder = S_at_id THEN SomeBorrowed(e.uid)
         ELSE IF placeholder = S_at_timestamp
         THEN SomeBorrowed(e.timestamp_str)
         ELSE IF starts_with(placeholder, S_at_date)
         THEN SomeOwned(render_date(e, SliceFrom(placeholder, 6)))
         ELSE IF starts_with(placeholder, S_at_branch)
         THEN SomeBorrowed(e.branch)
         ELSE SomeBorrowed(<<>>)
    ELSE LET sp == split_once(placeholder, DOT)
         IN  IF sp # None
             THEN IF sp.lhs = S_fields
                  THEN HashMapRender(e.fields, sp.rhs)
                  ELSE IF sp.lhs = S_params
                  THEN HashMapRender(e.params, sp.rhs)
                  ELSE None
             ELSE None

EntryResolver(e) == [kind |-> "NewEntry", entry |-> e]

\* r.render(x), by the type of r
Render(r, x) ==
    IF r.kind = "HashMap" THEN HashMapRender(r.map, x)
    ELSE NewEntryRender(r.entry, x)

\* From<&str> / From<String> / From<Cow<str>> for SimpleToken
TokenFrom(v) == IF v.owned THEN Rendered(v.val) ELSE Literal(v.val)

\* faulty variant: a value that is itself a placeholder is resolved again
render_placeholder_nested(r, tok) ==
    IF is_placeholder(tok)
    THEN LET v == Render(r, raw_ref(tok))
             n == IF v = None THEN 0 ELSE Len(v.val)
             inner == IF n >= 2 /\ v.val[1] = LBRACE /\ v.val[n] = RBRACE
                      THEN Render(r, SubSeq(v.val, 2, n - 1))
                      ELSE None
         IN  IF v = None THEN tok
             ELSE IF inner # None THEN TokenFrom(inner)
             ELSE TokenFrom(v)
    ELSE tok

\* RenderPlaceholder::render_placeholder
render_placeholder(r, tok) ==
    IF is_placeholder(tok)
    THEN LET v == Render(r, raw_ref(tok))
         IN  IF v = None THEN tok ELSE TokenFrom(v)
    ELSE tok

\* render_str: SimpleParser::new(text).render_placeholders(render)
\*             .collect_display(), the accumulator starting empty
RECURSIVE collect_display(_, _, _)
collect_display(t, r, acc) ==
    LET n == SimpleParserNext(t)
    IN  IF n.item = None THEN acc
        ELSE collect_display(n.text, r,
                             acc \o display_ref(render_placeholder(r, n.item)))

render_str(t, r) == collect_display(t, r, <<>>)

(***************************************************************************)
(* base85 (RFC1924 character set, 64-bit chunks)                            *)
(*                                                                         *)
(* A u64 is kept as its 8 big-endian bytes (u64::from_be_bytes /            *)
(* to_be_bytes), and its arithmetic is done byte by byte.                   *)
(***************************************************************************)
\* b"0123456789ABCDEFGHIJKLMNOPQRSTUVWXYZabcdefghijklmnopqrstuvwxyz
\*   !#$%&()*+-;<=>?@^_`{|}~"
B85Chars ==
    [i \in 1..10 |-> 47 + i] \o [i \in 1..26 |-> 64 + i]
        \o [i \in 1..26 |-> 96 + i]
        \o <<33, 35, 36, 37, 38, 40, 41, 42, 43, 45, 59, 60, 61, 62, 63, 64,
             94, 95, 96, 123, 124, 125, 126>>

U64Zero == [i \in 1..8 |-> 0]

\* x / 85 and x % 85, by long division from the most significant byte
RECURSIVE DivMod85(_, _, _, _)
DivMod85(x, i, r, q) ==
    IF i > Len(x) THEN [quot |-> q, rem |-> r]
    ELSE LET cur == r * 256 + x[i]
         IN  DivMod85(x, i + 1, cur % 85, Append(q, cur \div 85))

\* x / 85u64.pow(i)
RECURSIVE DivPow85(_, _)
DivPow85(x, i) ==
    IF i = 0 THEN x ELSE DivPow85(DivMod85(x, 1, 0, <<>>).quot, i - 1)

\* chars[(buf / 85u64.pow(i) % 85) as usize]
EncodeSymbol(buf, i) == B85Chars[DivMod85(DivPow85(buf, i), 1, 0, <<>>).rem + 1]

\* (0..n).rev().map(|i| chars[..]): symbols n-1 down to 0
RECURSIVE EncodeSymbols(_, _)
EncodeSymbols(buf, n) ==
    IF n = 0 THEN <<>>
    ELSE <<EncodeSymbol(buf, n - 1)>> \o EncodeSymbols(buf, n - 1)

\* the loop over value.chunks_exact(8), from chunk k on
RECURSIVE EncodeChunks(_, _)
EncodeChunks(value, k) ==
    IF 8 * k > Len(value) THEN <<>>
    ELSE EncodeSymbols(SubSeq(value, 8 * k - 7, 8 * k), 10)
             \o EncodeChunks(value, k + 1)

\* faulty variant: the padded remainder is left-aligned in the 8 bytes
encode_rem_left(value) ==
    LET in_len == Len(value)
        out_len == 5 * (in_len \div 4)
                     + (IF in_len % 4 # 0 THEN (in_len % 4) + 1 ELSE 0)
        rem == SubSeq(value, 8 * (in_len \div 8) + 1, in_len)
        buf == rem \o [i \in 1..(8 - Len(rem)) |-> 0]
    IN  EncodeChunks(value, 1)
            \o (IF rem # <<>> THEN EncodeSymbols(buf, out_len % 10) ELSE <<>>)

\* base85::encode
encode(value) ==
    LET in_len == Len(value)
        out_len == 5 * (in_len \div 4)
                     + (IF in_len % 4 # 0 THEN (in_len % 4) + 1 ELSE 0)
        rem == SubSeq(value, 8 * (in_len \div 8) + 1, in_len)
        buf == [i \in 1..(8 - Len(rem)) |-> 0] \o rem
    IN  EncodeChunks(value, 1)
            \o (IF rem # <<>> THEN EncodeSymbols(buf, out_len % 10) ELSE <<>>)

\* the match on c in decode: the symbol's index, or -1 (None)
DecodeIndex(c) ==
    CASE c >= 48 /\ c <= 57 -> c - 48
      [] c >= 65 /\ c <= 90 -> c - 65 + 10
      [] c >= 97 /\ c <= 122 -> c - 97 + 36
      [] c = 33 -> 62
      [] c = 35 -> 63
      [] c = 36 -> 64
      [] c = 37 -> 65
      [] c = 38 -> 66
      [] c = 40 -> 67
      [] c = 41 -> 68
      [] c = 42 -> 69
      [] c = 43 -> 70
      [] c = 45 -> 71
      [] c = 59 -> 72
      [] c = 60 -> 73
      [] c = 61 -> 74
      [] c = 62 -> 75
      [] c = 63 -> 76
      [] c = 64 -> 77
      [] c = 94 -> 78
      [] c = 95 -> 79
      [] c = 96 -> 80
      [] c = 123 -> 81
      [] c = 124 -> 82
      [] c = 125 -> 83
      [] c = 126 -> 84
      [] OTHER -> -1

\* buf * 85 + index over the 8 bytes, from the least significant: the low
\* 64 bits and the carry out of them (non-zero when the u64 overflows)
RECURSIVE MulAdd85(_, _, _, _)
MulAdd85(buf, i, carry, acc) ==
    IF i = 0 THEN [bytes |-> acc, carry |-> carry]
    ELSE LET cur == buf[i] * 85 + carry
         IN  MulAdd85(buf, i - 1, cur \div 256, <<cur % 256>> \o acc)

Panic == [panic |-> TRUE]

\* one iteration of decode's loop over value.chars(), on the byte c. A
\* character outside ASCII is made of bytes of 128 and more, none of which
\* is_ascii, so skipping those bytes is skipping that character.
\* `checks`: the build panics on integer overflow; otherwise the u64 wraps.
DecodeStep(st, c, checks) ==
    IF st.panic \/ c >= 128 \/ DecodeIndex(c) = -1 THEN st
    ELSE LET m == MulAdd85(st.buf, 8, DecodeIndex(c), <<>>)
         IN  IF m.carry # 0 /\ checks
             THEN [st EXCEPT !.panic = TRUE]
             ELSE IF st.count + 1 = 10
                  THEN [buf |-> U64Zero, count |-> 0,
                        out |-> st.out \o m.bytes, panic |-> FALSE]
                  ELSE [buf |-> m.bytes, count |-> st.count + 1,
                        out |-> st.out, panic |-> FALSE]

RECURSIVE DecodeLoop(_, _, _, _)
DecodeLoop(value, i, st, checks) ==
    IF i > Len(value) THEN st
    ELSE DecodeLoop(value, i + 1, DecodeStep(st, value[i], checks), checks)

\* base85::decode: the decoded bytes, or Panic
decode(value, checks) ==
    LET st == DecodeLoop(value, 1,
                         [buf |-> U64Zero, count |-> 0, out |-> <<>>,
                          panic |-> FALSE], checks)
        rem_bytes == IF st.count <= 5 THEN st.count - 1 ELSE st.count - 2
    IN  IF st.panic THEN Panic
        ELSE IF st.count > 1
        THEN Val(st.out \o SubSeq(st.buf, 8 - rem_bytes + 1, 8))
        ELSE Val(st.out)

(***************************************************************************)
(* Field transforms                                                         *)
(***************************************************************************)
IsUpper(c) == c >= 65 /\ c <= 90
IsAlnum(c) == (c >= 48 /\ c <= 57) \/ IsUpper(c) \/ (c >= 97 /\ c <= 122)

\* slug::slugify on ASCII text: letters and digits are kept, in lower case;
\* every run of other bytes becomes one '-', none at the start or the end.
\* (The transliteration of non-ASCII characters is not modelled: their bytes
\* count as other bytes.)
RECURSIVE SlugScan(_, _, _)
SlugScan(v, i, acc) ==
    IF i > Len(v)
    THEN IF acc # <<>> /\ acc[Len(acc)] = 45
         THEN SubSeq(acc, 1, Len(acc) - 1) ELSE acc
    ELSE IF IsAlnum(v[i])
    THEN SlugScan(v, i + 1,
                  Append(acc, IF IsUpper(v[i]) THEN v[i] + 32 ELSE v[i]))
    ELSE IF acc # <<>> /\ acc[Len(acc)] # 45
    THEN SlugScan(v, i + 1, Append(acc, 45))
    ELSE SlugScan(v, i + 1, acc)

slugify(v) == SlugScan(v, 1, <<>>)

HexDigit(n) == IF n < 10 THEN 48 + n ELSE 87 + n

RECURSIVE ByteSum(_, _)
ByteSum(v, i) ==
    IF i > Len(v) THEN 0 ELSE (i * v[i] + ByteSum(v, i + 1)) % 65536

\* format!("{:x}", md5::compute(..)) and sha256::digest(..): lower-case hex
\* digests. The digest functions are external; a short checksum stands for
\* them (2 and 4 hex digits in place of 32 and 64).
Md5Hex(v) ==
    LET d == (ByteSum(v, 1) + Len(v)) % 256
    IN  <<HexDigit(d \div 16), HexDigit(d % 16)>>

Sha256Hex(v) ==
    LET d == (ByteSum(v, 1) * 31 + 7) % 65536
    IN  <<HexDigit(d \div 4096), HexDigit((d \div 256) % 16),
          HexDigit((d \div 16) % 16), HexDigit(d % 16)>>

IsCont(c) == c >= 128 /\ c <= 191

\* String::from_utf8 succeeds: the bytes from i on are well-formed UTF-8
RECURSIVE Utf8Valid(_, _)
Utf8Valid(v, i) ==
    LET n == Len(v) - i + 1
        c == v[i]
    IN  IF i > Len(v) THEN TRUE
        ELSE IF c < 128 THEN Utf8Valid(v, i + 1)
        ELSE IF c >= 194 /\ c <= 223
        THEN n >= 2 /\ IsCont(v[i + 1]) /\ Utf8Valid(v, i + 2)
        ELSE IF c >= 224 /\ c <= 239
        THEN /\ n >= 3
             /\ IsCont(v[i + 1]) /\ IsCont(v[i + 2])
             /\ (c = 224 => v[i + 1] >= 160)
             /\ (c = 237 => v[i + 1] <= 159)
             /\ Utf8Valid(v, i + 3)
        ELSE IF c >= 240 /\ c <= 244
        THEN /\ n >= 4
             /\ IsCont(v[i + 1]) /\ IsCont(v[i + 2]) /\ IsCont(v[i + 3])
             /\ (c = 240 => v[i + 1] >= 144)
             /\ (c = 244 => v[i + 1] <= 143)
             /\ Utf8Valid(v, i + 4)
        ELSE FALSE

(***************************************************************************)
(* NewEntry and its field processing                                        *)
(***************************************************************************)
Ok(v) == [ok |-> TRUE, val |-> v]
Err(kind, msg) == [ok |-> FALSE, kind |-> kind, msg |-> msg]

\* ImpError::status_code: the HTTP status of an error, by its variant
status_code(err) ==
    CASE err.kind = "BadRequest" -> 400
      [] err.kind = "InternalError" -> 500
      [] err.kind = "OpensslError" -> 500
      [] err.kind = "AwcSendRequestError" -> 500
      [] err.kind = "UrlEncodingError" -> 500
      [] err.kind = "AwcJsonError" -> 500
      [] err.kind = "AddrParseError" -> 400
      [] err.kind = "FromUtf8Error" -> 500
      [] err.kind = "Debug" -> 200

\* faulty variant: or_insert, an existing value is kept
MapInsert_keepOld(m, k, v) ==
    [x \in DOMAIN m \cup {k} |-> IF x \in DOMAIN m THEN m[x] ELSE v]

\* HashMap::insert
MapInsert(m, k, v) ==
    [x \in DOMAIN m \cup {k} |-> IF x = k THEN v ELSE m[x]]

\* GeneratedField::render
GeneratedFieldRender(gen, e) == render_str(gen, EntryResolver(e))

\* faulty variant: the allowed check comes before the required check
validate_fields_allowedFirst(e, conf) ==
    LET keys == DOMAIN e.fields
    IN  IF ~(keys \subseteq conf.allowed)
        THEN Err("BadRequest", "Unknown field(s)")
        ELSE IF ~(conf.required \subseteq keys)
        THEN Err("BadRequest", "Missing field(s)")
        ELSE Ok(e)

\* faulty variant: only the required fields are checked
validate_fields_requiredOnly(e, conf) ==
    IF ~(conf.required \subseteq DOMAIN e.fields)
    THEN Err("BadRequest", "Missing field(s)")
    ELSE Ok(e)

\* NewEntry::validate_fields
validate_fields(e, conf) ==
    LET keys == DOMAIN e.fields
    IN  IF ~(conf.required \subseteq keys)
        THEN Err("BadRequest", "Missing field(s)")
        ELSE IF ~(keys \subseteq conf.allowed)
        THEN Err("BadRequest", "Unknown field(s)")
        ELSE Ok(e)

\* faulty variant: the loop ends after the first generated field
generate_fields_firstOnly(e, extra, order) ==
    IF order = <<>> THEN Ok(e)
    ELSE Ok([e EXCEPT !.fields =
                MapInsert(e.fields, Head(order),
                          GeneratedFieldRender(extra[Head(order)], e))])

\* NewEntry::generate_fields, the iterator over extra yielding its keys in
\* the order `order`
RECURSIVE generate_fields(_, _, _)
generate_fields(e, extra, order) ==
    IF order = <<>> THEN Ok(e)
    ELSE LET key == Head(order)
             val == GeneratedFieldRender(extra[key], e)
         IN  generate_fields(
                 [e EXCEPT !.fields = MapInsert(e.fields, key, val)],
                 extra, Tail(order))

\* the match on t.transform: the new value of the field, an error or Panic
ApplyTransform(kind, field, checks) ==
    CASE kind = "Slugify" -> Ok(slugify(field))
      [] kind = "Md5" -> Ok(Md5Hex(field))
      [] kind = "Sha256" -> Ok(Sha256Hex(field))
      [] kind = "ToBase85" -> Ok(encode(field))
      [] kind = "FromBase85" ->
           LET d == decode(field, checks)
           IN  IF d = Panic THEN Panic
               ELSE IF Utf8Valid(d.val, 1) THEN Ok(d.val)
               ELSE Err("FromUtf8Error", "invalid utf-8 sequence")

\* faulty variant: every transform is applied to the value the field had at the start
RECURSIVE transform_fields_fromStart(_, _, _, _)
transform_fields_fromStart(e0, e, transforms, checks) ==
    IF transforms = <<>> THEN Ok(e)
    ELSE LET t == Head(transforms)
         IN  IF t.field \in DOMAIN e.fields
             THEN LET r == ApplyTransform(t.transform, e0.fields[t.field],
                                          checks)
                  IN  IF r = Panic THEN Panic
                      ELSE IF ~r.ok THEN r
                      ELSE transform_fields_fromStart(
                               e0, [e EXCEPT !.fields[t.field] = r.val],
                               Tail(transforms), checks)
             ELSE transform_fields_fromStart(e0, e, Tail(transforms), checks)

transform_fields_stale(e, transforms, checks) ==
    transform_fields_fromStart(e, e, transforms, checks)

\* NewEntry::transform_fields
RECURSIVE transform_fields(_, _, _)
transform_fields(e, transforms, checks) ==
    IF transforms = <<>> THEN Ok(e)
    ELSE LET t == Head(transforms)
         IN  IF t.field \in DOMAIN e.fields
             THEN LET r == ApplyTransform(t.transform, e.fields[t.field],
                                          checks)
                  IN  IF r = Panic THEN Panic
                      ELSE IF ~r.ok THEN r
                      ELSE transform_fields(
                               [e EXCEPT !.fields[t.field] = r.val],
                               Tail(transforms), checks)
             ELSE transform_fields(e, Tail(transforms), checks)

(***************************************************************************)
(* The record builder: Render<NewEntry, ImpResult<GitEntry>> for            *)
(* EntryConfig                                                              *)
(***************************************************************************)
Some(v) == [none |-> FALSE, val |-> v]

NEWLINE == 10

\* Path::new(path).join(filename), on Unix: an absolute filename replaces
\* the path; otherwise a separator is added after a non-empty path that
\* does not end with one
PathJoin(path, filename) ==
    IF filename # <<>> /\ filename[1] = 47 THEN filename
    ELSE IF path = <<>> \/ path[Len(path)] = 47 THEN path \o filename
    ELSE path \o <<47>> \o filename

S_table_head ==
    <<124, 70, 105, 101, 108, 100, 124, 67, 111, 110, 116, 101, 110, 116, 124, 10>>

\* MarkdownTable::new(rows).with_headings(["Field", "Content"])
\*     .as_markdown(): one row per field, in the order the field map is
\* iterated. The table is drawn by an external crate; its layout is
\* abbreviated to |key|value| lines here.
RECURSIVE MarkdownTable(_, _)
MarkdownTable(fields, order) ==
    IF order = <<>> THEN S_table_head
    ELSE MarkdownTable(fields, SubSeq(order, 1, Len(order) - 1))
             \o <<124>> \o order[Len(order)] \o <<124>>
             \o fields[order[Len(order)]] \o <<124, NEWLINE>>

\* faulty variant: an empty rendered branch is not exempt
BranchNotAllowed_noExempt(branch, e) == branch # e.branch

\* the test `!branch.is_empty() && branch != entry.branch`
BranchNotAllowed(branch, e) == branch # <<>> /\ branch # e.branch

\* EntryConfig::validate_branch: the branch of the git sub-config is
\* compared as it is written, without rendering it
validate_branch(conf, branch) ==
    IF conf.git # None
    THEN conf.git.val.branch = <<>> \/ conf.git.val.branch = branch
    ELSE TRUE

\* faulty variant: the description is left out
ReviewMetadata_noDescription(conf, gitconf, e, table) ==
    IF conf.review
    THEN [review_branch |->
              Some(render_str(gitconf.review_branch, EntryResolver(e))),
          mr_description |-> None]
    ELSE [review_branch |-> None, mr_description |-> None]

\* the pair (review_branch, mr_description), given the markdown table
ReviewMetadata(conf, gitconf, e, table) ==
    IF conf.review
    THEN [review_branch |->
              Some(render_str(gitconf.review_branch, EntryResolver(e))),
          mr_description |->
              Some(render_str(gitconf.mr_description, EntryResolver(e))
                       \o <<NEWLINE, NEWLINE>> \o table)]
    ELSE [review_branch |-> None, mr_description |-> None]

\* EntryConfig::render with a git sub-config: the branch check and the
\* construction of the GitEntry. `order` is the order in which entry.fields
\* is iterated for the table, `table_ok` whether as_markdown succeeds.
RenderWithGit(conf, gitconf, e, order, table_ok) ==
    LET r == EntryResolver(e)
        branch == render_str(gitconf.branch, r)
    IN  IF BranchNotAllowed(branch, e)
        THEN Err("BadRequest", "Branch not allowed")
        ELSE IF conf.review /\ ~table_ok
        THEN Err("InternalError", "failed to create markdown table")
        ELSE LET file_path == PathJoin(render_str(gitconf.path, r),
                                       render_str(gitconf.filename, r))
                 meta == ReviewMetadata(conf, gitconf, e,
                                        MarkdownTable(e.fields, order))
             IN  Ok([project_id |-> e.project_id,
                     branch |-> render_str(gitconf.branch, r),
                     file_path |-> file_path,
                     fields |-> e.fields,
                     commit_message |->
                         render_str(gitconf.commit_message, r),
                     review_branch |-> meta.review_branch,
                     mr_description |-> meta.mr_description,
                     format |-> conf.format])

\* faulty variant: the git sub-config is looked at before the branch
EntryConfigRender_gitFirst(conf, e, order, table_ok) ==
    IF conf.git = None
    THEN Err("BadRequest", "missing git entry configuration")
    ELSE IF e.branch = <<>> THEN Err("BadRequest", "Must specify branch")
    ELSE RenderWithGit(conf, conf.git.val, e, order, table_ok)

\* EntryConfig::render(entry): Ok(GitEntry) or an error
EntryConfigRender(conf, e, order, table_ok) ==
    IF e.branch = <<>> THEN Err("BadRequest", "Must specify branch")
    ELSE IF conf.git # None
    THEN RenderWithGit(conf, conf.git.val, e, order, table_ok)
    ELSE Err("BadRequest", "missing git entry configuration")

\* the render_str calls EntryConfig::render makes, in order, named by the
\* GitEntryConfig field rendered
RenderCalls(conf, e, table_ok) ==
    IF e.branch = <<>> \/ conf.git = None THEN <<>>
    ELSE IF BranchNotAllowed(
                render_str(conf.git.val.branch, EntryResolver(e)), e)
    THEN <<"branch">>
    ELSE <<"branch", "path", "filename", "branch", "commit_message">>
             \o (IF conf.review /\ table_ok
                 THEN <<"mr_description", "review_branch">> ELSE <<>>)

(***************************************************************************)
(* Entries and field configurations of the model                            *)
(***************************************************************************)
S_a == <<97>>
S_b == <<98>>
S_c == <<99>>
S_x == <<120>>
S_p == <<112>>  \* "p"
S_v == <<118>>  \* "v"
S_uid == <<117, 45, 49>>  \* "u-1"
S_timestamp == <<84, 48>>  \* "T0"
S_main == <<109, 97, 105, 110>>  \* "main"
S_dev == <<100, 101, 118>>  \* "dev"
S_proj == <<103, 47, 112>>  \* "g/p"
V_A_b == <<65, 32, 98>>  \* "A b"
V_1h == <<49, 104>>  \* "1h": base85 for the byte 0x80, which is no UTF-8
V_overflow == <<126, 49, 49, 49, 49, 49, 49, 49, 49, 49>>  \* "~111111111"
T_fields_a_id == <<123, 102, 105, 101, 108, 100, 115, 46, 97, 125, 45, 123, 64, 105, 100, 125>>  \* "{fields.a}-{@id}"
T_x_params_p == <<120, 123, 112, 97, 114, 97, 109, 115, 46, 112, 125>>  \* "x{params.p}"
T_fields_b == <<123, 102, 105, 101, 108, 100, 115, 46, 98, 125>>  \* "{fields.b}"

EmptyMap == <<>>

\* the maps with keys within the domain of `choices`, each key k mapped to
\* an element of choices[k]
PartialMaps(choices) ==
    UNION {{m \in [D -> UNION {choices[k] : k \in D}] :
               \A k \in D : m[k] \in choices[k]} : D \in SUBSET DOMAIN choices}

\* field maps a caller may submit
SubmittedFields ==
    PartialMaps([k \in {S_a, S_b, S_c} |->
                    IF k = S_a THEN {V_A_b, V_1h, V_overflow}
                    ELSE IF k = S_b THEN {V_A_b} ELSE {V_1h}])

NewEntryOf(branch, fields, params) ==
    [uid |-> S_uid, timestamp_str |-> S_timestamp, project_id |-> S_proj,
     branch |-> branch, fields |-> fields, params |-> params]

Params == {EmptyMap, [k \in {S_p} |-> S_v]}

FieldTransform(f, k) == [field |-> f, transform |-> k]
\* the transforms a configuration may list
TransformChoices ==
    {FieldTransform(S_a, k) : k \in {"Slugify", "ToBase85", "FromBase85"}}
        \cup {FieldTransform(S_b, "Md5"), FieldTransform(S_c, "Sha256")}
TransformLists ==
    UNION {[1..n -> TransformChoices] : n \in 0..MaxTransforms}

\* the generated fields a configuration may have: none; or a (overwriting a
\* submitted a) and c (outside `allowed` when that is {a, b}), c's template
\* reading a
ExtraChoices ==
    {EmptyMap,
     [k \in {S_a, S_c} |-> IF k = S_a THEN T_x_params_p ELSE T_fields_a_id]}

FieldConfigs ==
    [allowed : {{S_a, S_b}, {S_a, S_b, S_c}},
     required : {{}, {S_a}},
     extra : ExtraChoices,
     transforms : TransformLists]

\* the orders in which a HashMap with the key set S may be iterated
Orders(S) ==
    {o \in [1..Cardinality(S) -> S] :
        \A i, j \in 1..Cardinality(S) : o[i] = o[j] => i = j}

IdleFields ==
    /\ entry = NewEntryOf(<<>>, EmptyMap, EmptyMap)
    /\ fconf = [allowed |-> {}, required |-> {}, extra |-> EmptyMap,
                transforms |-> <<>>]
    /\ stage = "idle"
    /\ calls = <<>>
    /\ submitted = EmptyMap
    /\ extraOrder = <<>>
    /\ generated = Unset
    /\ presult = Unset

(***************************************************************************)
(* Entry configurations of the model                                        *)
(***************************************************************************)
S_data_entries ==
    <<100, 97, 116, 97, 47, 101, 110, 116, 114, 105, 101, 115>>
T_default_filename ==
    <<101, 110, 116, 114, 121, 45, 123, 64, 116, 105, 109, 101, 115, 116, 97, 109, 112, 125, 46, 121, 109, 108>>
T_default_review_branch ==
    <<115, 116, 97, 116, 105, 99, 105, 109, 112, 95, 123, 64, 105, 100, 125>>
T_default_mr_description ==
    <<110, 101, 119, 32, 115, 116, 97, 116, 105, 99, 105, 109, 112, 32, 101, 110, 116, 114, 121, 32, 97, 119, 97, 105, 116, 105, 110, 103, 32, 97, 112, 112, 114, 111, 118, 97, 108, 10, 10, 77, 101, 114, 103, 101, 32, 116, 104, 101, 32, 112, 117, 108, 108, 32, 114, 101, 113, 117, 101, 115, 116, 32, 116, 111, 32, 97, 99, 99, 101, 112, 116, 32, 105, 116, 44, 32, 111, 114, 32, 99, 108, 111, 115, 101, 32, 105, 116>>
T_default_commit_message ==
    <<78, 101, 119, 32, 115, 116, 97, 116, 105, 99, 105, 109, 112, 32, 101, 110, 116, 114, 121>>
T_at_branch == <<123, 64, 98, 114, 97, 110, 99, 104, 125>>  \* "{@branch}"
T_params_p == <<123, 112, 97, 114, 97, 109, 115, 46, 112, 125>>  \* "{params.p}"
T_fields_a == <<123, 102, 105, 101, 108, 100, 115, 46, 97, 125>>  \* "{fields.a}"

\* GitEntryConfig: the defaults of the source, with the branch template
\* "main" (the default), "" (any branch), "{@branch}", or one taken from
\* the request ("{params.p}"), and the filename the default or the field a
GitEntryConfigs ==
    [path : {S_data_entries, <<>>},
     filename : {T_default_filename, T_fields_a},
     branch : {S_main, <<>>, T_at_branch, T_params_p},
     review_branch : {T_default_review_branch},
     mr_description : {T_default_mr_description},
     commit_message : {T_default_commit_message}]

NoFieldConfig ==
    [allowed |-> {}, required |-> {}, extra |-> EmptyMap, transforms |-> <<>>]

EntryConfigs ==
    [disabled : {FALSE},
     debug : BOOLEAN,
     fields : {NoFieldConfig},
     review : BOOLEAN,
     format : {"Yaml", "Json"},
     git : {None} \cup {Some(g) : g \in GitEntryConfigs}]

V_abs == <<47, 120>>  \* "/x"
V_up == <<46, 46, 47, 120>>  \* "../x"

\* the entries new_entry receives: processed entries, on the branch of the
\* request path (possibly empty)
BuildEntries ==
    {NewEntryOf(b, f, p) :
        b \in {<<>>, S_main, S_dev},
        f \in {EmptyMap, [k \in {S_a} |-> S_x], [k \in {S_a, S_b} |-> S_main],
                [k \in {S_a} |-> V_abs], [k \in {S_a} |-> V_up]},
        p \in {EmptyMap, [k \in {S_p} |-> S_main], [k \in {S_p} |-> <<>>]}}

IdleBuild ==
    /\ bentry = NewEntryOf(<<>>, EmptyMap, EmptyMap)
    /\ econf = [disabled |-> FALSE, debug |-> FALSE, fields |-> NoFieldConfig,
                review |-> FALSE, format |-> "Yaml", git |-> None]
    /\ tableOk = TRUE
    /\ serializeOk = TRUE
    /\ apiStage = "idle"
    /\ record = Unset
    /\ apiResult = Unset
    /\ templatesRendered = <<>>

IdleResolve ==
    /\ askedName = <<>>
    /\ resolution = Unset

IdleWrite ==
    /\ writeStage = "idle"
    /\ gitCalls = <<>>
    /\ writeResult = Unset

IdleHandler ==
    /\ hrequest = "ok"
    /\ hbackend = "gitlab"
    /\ hentryType = "comment"
    /\ hstage = "idle"
    /\ response = Unset
    /\ clientCalls = <<>>

IdleDispatch == reqs = <<>>

(***************************************************************************)
(* SpecRender: a template is tokenized by SimpleParser and rendered by      *)
(* render_str                                                               *)
(***************************************************************************)
TemplateChars == {LBRACE, RBRACE, 97, 98}
Templates == Strings(TemplateChars, MaxTemplateLen)

S_brace_a == <<LBRACE, 97, RBRACE>>
S_brace_b == <<LBRACE, 98, RBRACE>>

\* a HashMap resolver: name a maps to nothing, "x", "{a}" or "{b}"; name b
\* to nothing or ""
MapsOver(A, B) == {[n \in D |-> IF n = S_a THEN p[1] ELSE p[2]] :
                      D \in SUBSET {S_a, S_b}, p \in A \X B}
Resolvers ==
    {MapResolver(m) : m \in MapsOver({S_x, S_brace_a, S_brace_b}, {<<>>})}

IdleBase85 ==
    /\ overflowChecks = FALSE
    /\ b85Bytes = Unset
    /\ b85Text = Unset
    /\ b85Out = Unset

InitRender ==
    /\ IdleHandler
    /\ IdleDispatch
    /\ IdleWrite
    /\ IdleResolve
    /\ IdleBase85
    /\ IdleFields
    /\ IdleBuild
    /\ template \in Templates
    /\ resolver \in Resolvers
    /\ text = template
    /\ tokens = <<>>
    /\ parserEnded = FALSE
    /\ rendered = Unset

\* one call of SimpleParser::next by the owner of the iterator
ParserNext ==
    LET n == SimpleParserNext(text)
    IN  /\ text' = n.text
        /\ tokens' = IF n.item = None THEN tokens ELSE Append(tokens, n.item)
        /\ parserEnded' = (n.item = None)
        /\ UNCHANGED <<template, resolver, rendered, b85Vars, fieldVars, buildVars>>
        /\ UNCHANGED <<resolveVars, writeVars, handlerVars, dispatchVars>>

\* render_str(template, resolver)
RenderStr ==
    /\ rendered' = Val(render_str(template, resolver))
    /\ UNCHANGED <<template, resolver, text, tokens, parserEnded, b85Vars,
                   fieldVars, buildVars>>
    /\ UNCHANGED resolveVars
    /\ UNCHANGED <<handlerVars, dispatchVars>>
    /\ UNCHANGED writeVars

NextRender == ParserNext \/ RenderStr

SpecRender == InitRender /\ [][NextRender]_vars

(***************************************************************************)
(* SpecBase85: bytes are encoded and the text decoded (the round trip), or  *)
(* a text supplied by a caller is decoded                                   *)
(***************************************************************************)
\* byte sequences to encode: all of 0x00 and 0xFF up to the bound, and the
\* plaintexts of test_base85
ByteValues == {0, 255}
S_HelloWorld == <<72, 101, 108, 108, 111, 32, 87, 111, 114, 108, 100>>
TestPlaintexts ==
    {S_HelloWorld, [i \in 1..8 |-> 64 + i], [i \in 1..9 |-> 64 + i]}
        \cup {[i \in 1..n |-> i] : n \in {1, 2, 3, 7, 8, 9}}
ByteStrings == Strings(ByteValues, MaxBytes) \cup TestPlaintexts

SYM_0 == 48
SYM_TILDE == 126
S_eacute == <<195, 169>>

\* n copies of the byte c
Repeat(c, n) == [i \in 1..n |-> c]

\* texts a caller may supply: a run of symbols (a first symbol, then copies
\* of a second) with characters outside the alphabet (a space, a non-ASCII
\* character) before it, inside it and after it
JunkStrings == {<<>>, <<32>>, S_eacute}
SymbolRuns ==
    {<<>>} \cup {<<s1>> \o Repeat(s2, n - 1) :
                    s1 \in {SYM_0, SYM_TILDE}, s2 \in {49, SYM_TILDE},
                    n \in 1..MaxSymbols}
CallerTexts ==
    UNION {{lead \o SubSeq(run, 1, p) \o mid \o SubSeq(run, p + 1, Len(run))
                \o trail :
               p \in 0..Len(run), lead \in JunkStrings, mid \in JunkStrings,
               trail \in JunkStrings} : run \in SymbolRuns}

IdleRender ==
    /\ template = <<>>
    /\ resolver = MapResolver(<<>>)
    /\ text = <<>>
    /\ tokens = <<>>
    /\ parserEnded = FALSE
    /\ rendered = Unset

InitBase85 ==
    /\ IdleHandler
    /\ IdleDispatch
    /\ IdleWrite
    /\ IdleResolve
    /\ IdleRender
    /\ IdleFields
    /\ IdleBuild
    /\ overflowChecks \in BOOLEAN
    /\ b85Out = Unset
    /\ \/ b85Bytes \in {Val(b) : b \in ByteStrings} /\ b85Text = Unset
       \/ b85Bytes = Unset /\ b85Text \in {Val(t) : t \in CallerTexts}

\* base85::encode(b85Bytes)
Base85Encode ==
    /\ b85Bytes # Unset
    /\ b85Text' = Val(encode(b85Bytes.val))
    /\ UNCHANGED <<parseVars, fieldVars, buildVars, overflowChecks, b85Bytes,
                   b85Out>>
    /\ UNCHANGED resolveVars
    /\ UNCHANGED <<handlerVars, dispatchVars>>
    /\ UNCHANGED writeVars

\* base85::decode(b85Text)
Base85Decode ==
    /\ b85Text # Unset
    /\ b85Out' = decode(b85Text.val, overflowChecks)
    /\ UNCHANGED <<parseVars, fieldVars, buildVars, overflowChecks, b85Bytes,
                   b85Text>>
    /\ UNCHANGED resolveVars
    /\ UNCHANGED <<handlerVars, dispatchVars>>
    /\ UNCHANGED writeVars

NextBase85 == Base85Encode \/ Base85Decode

SpecBase85 == InitBase85 /\ [][NextBase85]_vars

(***************************************************************************)
(* SpecFields: NewEntry::process_fields on the entry of one request,        *)
(*   self.validate_fields(&conf)?                                           *)
(*       .generate_fields(&conf.extra)?                                     *)
(*       .transform_fields(&conf.transforms)                                *)
(* one action per stage method; each `?` returns the stage's error.         *)
(***************************************************************************)
InitFields ==
    /\ IdleHandler
    /\ IdleDispatch
    /\ IdleWrite
    /\ IdleResolve
    /\ IdleRender
    /\ IdleBuild
    /\ b85Bytes = Unset /\ b85Text = Unset /\ b85Out = Unset
    /\ overflowChecks \in BOOLEAN
    /\ \E f \in SubmittedFields, p \in Params :
          /\ entry = NewEntryOf(S_main, f, p)
          /\ submitted = f
    /\ fconf \in FieldConfigs
    /\ stage = "validate"
    /\ calls = <<>>
    /\ extraOrder = <<>>
    /\ generated = Unset
    /\ presult = Unset

\* faulty variant: a failed validation does not stop process_fields
ValidateFields_noStop ==
    /\ stage = "validate"
    /\ calls' = Append(calls, "validate_fields")
    /\ stage' = "generate"
    /\ UNCHANGED <<entry, presult>>
    /\ UNCHANGED <<parseVars, b85Vars, buildVars, fconf, submitted, extraOrder,
                   generated>>
    /\ UNCHANGED resolveVars
    /\ UNCHANGED <<handlerVars, dispatchVars>>
    /\ UNCHANGED writeVars

\* self.validate_fields(&conf)?
ValidateFields ==
    /\ stage = "validate"
    /\ calls' = Append(calls, "validate_fields")
    /\ LET r == validate_fields(entry, fconf)
       IN  IF r.ok
           THEN /\ entry' = r.val
                /\ stage' = "generate"
                /\ UNCHANGED presult
           ELSE /\ presult' = r
                /\ stage' = "done"
                /\ UNCHANGED entry
    /\ UNCHANGED <<parseVars, b85Vars, buildVars, fconf, submitted, extraOrder,
                   generated>>
    /\ UNCHANGED resolveVars
    /\ UNCHANGED <<handlerVars, dispatchVars>>
    /\ UNCHANGED writeVars

\* .generate_fields(&conf.extra)?  The HashMap is iterated in some order.
GenerateFields ==
    /\ stage = "generate"
    /\ calls' = Append(calls, "generate_fields")
    /\ \E order \in Orders(DOMAIN fconf.extra) :
          LET r == generate_fields(entry, fconf.extra, order)
          IN  /\ extraOrder' = order
              /\ entry' = r.val
              /\ generated' = Val(r.val.fields)
    /\ stage' = "transform"
    /\ UNCHANGED <<parseVars, b85Vars, buildVars, fconf, submitted, presult>>
    /\ UNCHANGED resolveVars
    /\ UNCHANGED <<handlerVars, dispatchVars>>
    /\ UNCHANGED writeVars

\* .transform_fields(&conf.transforms)
TransformFields ==
    /\ stage = "transform"
    /\ calls' = Append(calls, "transform_fields")
    /\ LET r == transform_fields(entry, fconf.transforms, overflowChecks)
       IN  /\ presult' = r
           /\ entry' = IF r # Panic /\ r.ok THEN r.val ELSE entry
    /\ stage' = "done"
    /\ UNCHANGED <<parseVars, b85Vars, buildVars, fconf, submitted, extraOrder,
                   generated>>
    /\ UNCHANGED resolveVars
    /\ UNCHANGED <<handlerVars, dispatchVars>>
    /\ UNCHANGED writeVars

NextFields == ValidateFields \/ GenerateFields \/ TransformFields

SpecFields == InitFields /\ [][NextFields]_vars

(***************************************************************************)
(* SpecGenerate: NewEntry::generate_fields on a validated entry, for        *)
(* generated fields that read each other and for ones that do not           *)
(***************************************************************************)
\* as ExtraChoices, and a and c with c's template reading the submitted b
GenerateExtraChoices ==
    ExtraChoices
        \cup {[k \in {S_a, S_c} |->
                  IF k = S_a THEN T_x_params_p ELSE T_fields_b]}

InitGenerate ==
    /\ IdleHandler
    /\ IdleDispatch
    /\ IdleWrite
    /\ IdleResolve
    /\ IdleRender
    /\ IdleBase85
    /\ IdleBuild
    /\ \E f \in SubmittedFields, p \in Params :
          /\ entry = NewEntryOf(S_main, f, p)
          /\ submitted = f
    /\ fconf \in [allowed : {{S_a, S_b}, {S_a, S_b, S_c}},
                  required : {{}, {S_a}},
                  extra : GenerateExtraChoices,
                  transforms : {<<>>}]
    /\ validate_fields(entry, fconf).ok
    /\ stage = "generate"
    /\ calls = <<"validate_fields">>
    /\ extraOrder = <<>>
    /\ generated = Unset
    /\ presult = Unset

NextGenerate == GenerateFields

SpecGenerate == InitGenerate /\ [][NextGenerate]_vars

(***************************************************************************)
(* SpecBuild: GitlabAPI::new_entry builds the record of an entry and        *)
(* decides what to write                                                    *)
(***************************************************************************)
InitBuild ==
    /\ IdleHandler
    /\ IdleDispatch
    /\ IdleWrite
    /\ IdleResolve
    /\ IdleRender
    /\ IdleBase85
    /\ IdleFields
    /\ bentry \in BuildEntries
    /\ econf \in EntryConfigs
    /\ tableOk \in BOOLEAN
    /\ serializeOk \in BOOLEAN
    /\ apiStage = "start"
    /\ record = Unset
    /\ apiResult = Unset
    /\ templatesRendered = <<>>

\* let git_entry = entry_conf.render(entry)?;
RenderEntry ==
    /\ apiStage = "start"
    /\ \E order \in Orders(DOMAIN bentry.fields) :
          record' = EntryConfigRender(econf, bentry, order, tableOk)
    /\ templatesRendered' = RenderCalls(econf, bentry, tableOk)
    /\ apiStage' = IF record'.ok THEN "rendered" ELSE "done"
    /\ apiResult' = IF record'.ok THEN apiResult ELSE record'
    /\ UNCHANGED <<parseVars, b85Vars, fieldVars, bentry, econf, tableOk,
                   serializeOk>>
    /\ UNCHANGED resolveVars
    /\ UNCHANGED <<handlerVars, dispatchVars>>
    /\ UNCHANGED writeVars

\* SerializationFormat::serialize and serialize_pretty: serde's outcome is
\* an input; a failure is a BadRequest named after the format
Serialize(format, ok, val) ==
    IF ok THEN Ok(val)
    ELSE IF format = "Json" THEN Err("BadRequest", "Bad json output")
    ELSE Err("BadRequest", "Bad yaml output")

\* faulty variant: the debug flag is not looked at
ChooseWrite_noDebug ==
    /\ apiStage = "rendered"
    /\ LET git_entry == record.val
           serialized == Serialize(git_entry.format, serializeOk,
                                   git_entry.fields)
       IN  apiResult' =
               IF git_entry.review_branch # None
               THEN IF git_entry.mr_description = None THEN Panic
                    ELSE IF ~serialized.ok THEN serialized
                    ELSE Ok("new_file_mr")
               ELSE IF ~serialized.ok THEN serialized
               ELSE Ok("new_file")
    /\ apiStage' = "done"
    /\ UNCHANGED <<parseVars, b85Vars, fieldVars, bentry, econf, tableOk,
                   serializeOk, record, templatesRendered>>
    /\ UNCHANGED resolveVars
    /\ UNCHANGED <<handlerVars, dispatchVars>>
    /\ UNCHANGED writeVars

\* the rest of new_entry up to its call of the backend: the debug return,
\* the unwrap of mr_description, the serialization of the fields
ChooseWrite ==
    /\ apiStage = "rendered"
    /\ LET git_entry == record.val
           serialized == Serialize(git_entry.format, serializeOk,
                                   git_entry.fields)
       IN  apiResult' =
               IF econf.debug
               THEN IF ~Serialize("Yaml", serializeOk, econf).ok
                    THEN Serialize("Yaml", serializeOk, econf)
                    ELSE IF ~serialized.ok THEN serialized
                    ELSE Err("Debug", "processed entry")
               ELSE IF git_entry.review_branch # None
               THEN IF git_entry.mr_description = None THEN Panic
                    ELSE IF ~serialized.ok THEN serialized
                    ELSE Ok("new_file_mr")
               ELSE IF ~serialized.ok THEN serialized
               ELSE Ok("new_file")
    /\ apiStage' = "done"
    /\ UNCHANGED <<parseVars, b85Vars, fieldVars, bentry, econf, tableOk,
                   serializeOk, record, templatesRendered>>
    /\ UNCHANGED resolveVars
    /\ UNCHANGED <<handlerVars, dispatchVars>>
    /\ UNCHANGED writeVars

\* what a GitAPI call can come to: the request is built and answered, the
\* endpoint builder fails, or the query fails
CallOutcomes == {"ok", "build_error", "query_error"}

\* GitlabAPI::new_branch
new_branch(outcome) ==
    IF outcome = "build_error" THEN Err("InternalError", "Bad branch spec")
    ELSE IF outcome = "query_error"
    THEN Err("BadRequest", "Gitlab new_branch failed")
    ELSE Ok(<<>>)

\* GitlabAPI::new_file
new_file(outcome) ==
    IF outcome = "build_error" THEN Err("BadRequest", "Bad file spec")
    ELSE IF outcome = "query_error"
    THEN Err("BadRequest", "Gitlab new_file failed")
    ELSE Ok(<<>>)

\* GitlabAPI::new_merge_request
new_merge_request(outcome) ==
    IF outcome = "build_error" THEN Err("InternalError", "Bad MR spec")
    ELSE IF outcome = "query_error"
    THEN Err("BadRequest", "Gitlab new_merge_request failed")
    ELSE Ok(<<>>)

\* &git_entry.serialize()?, once it has succeeded
Content(git_entry) ==
    [format |-> git_entry.format, fields |-> git_entry.fields]

\* the call new_entry makes for an entry without review branch
NewFileCall(git_entry) ==
    [call |-> "new_file", project |-> git_entry.project_id,
     branch |-> git_entry.branch, path |-> git_entry.file_path,
     content |-> Content(git_entry),
     commit_message |-> git_entry.commit_message]

\* faulty variant: the file is committed to the target branch
NewFileMrCalls_fileOnTarget(git_entry) ==
    <<[call |-> "new_branch", project |-> git_entry.project_id,
       branch |-> git_entry.review_branch.val, ref |-> git_entry.branch],
      [call |-> "new_file", project |-> git_entry.project_id,
       branch |-> git_entry.branch, path |-> git_entry.file_path,
       content |-> Content(git_entry),
       commit_message |-> git_entry.commit_message],
      [call |-> "new_merge_request", project |-> git_entry.project_id,
       source_branch |-> git_entry.review_branch.val,
       target_branch |-> git_entry.branch,
       title |-> git_entry.commit_message,
       description |-> git_entry.mr_description.val]>>

\* GitAPI::new_file_mr, as new_entry calls it: its three calls
NewFileMrCalls(git_entry) ==
    <<[call |-> "new_branch", project |-> git_entry.project_id,
       branch |-> git_entry.review_branch.val, ref |-> git_entry.branch],
      [call |-> "new_file", project |-> git_entry.project_id,
       branch |-> git_entry.review_branch.val,
       path |-> git_entry.file_path,
       content |-> Content(git_entry),
       commit_message |-> git_entry.commit_message],
      [call |-> "new_merge_request", project |-> git_entry.project_id,
       source_branch |-> git_entry.review_branch.val,
       target_branch |-> git_entry.branch,
       title |-> git_entry.commit_message,
       description |-> git_entry.mr_description.val]>>

\* faulty variant: the result of a call is dropped and the next call made
AfterCall_continues(call, res) ==
    IF call = "new_branch" THEN "new_file"
    ELSE IF call = "new_file" THEN "new_merge_request"
    ELSE "done"

\* `.await?` in new_file_mr: an error ends it, otherwise the next call
AfterCall(call, res) ==
    IF ~res.ok THEN "done"
    ELSE IF call = "new_branch" THEN "new_file"
    ELSE IF call = "new_file" THEN "new_merge_request"
    ELSE "done"

\* what new_file_mr has returned once it is at stage `next`
MrResult(next, res, old) ==
    IF next # "done" THEN old
    ELSE IF ~res.ok THEN res
    ELSE Ok(<<>>)

\* self.new_branch(&project, &review_branch, &branch).await?
NewBranch ==
    /\ apiStage = "done" /\ apiResult = Ok("new_file_mr")
    /\ writeStage = "idle"
    /\ \E outcome \in CallOutcomes :
          LET res == new_branch(outcome)
              next == AfterCall("new_branch", res)
          IN  /\ gitCalls' = Append(gitCalls,
                      [args |-> NewFileMrCalls(record.val)[1], res |-> res])
              /\ writeStage' = next
              /\ writeResult' = MrResult(next, res, writeResult)
    /\ UNCHANGED <<parseVars, b85Vars, fieldVars, buildVars, resolveVars>>
    /\ UNCHANGED <<handlerVars, dispatchVars>>

\* self.new_file(..).await, from new_entry on the target branch or from
\* new_file_mr on the review branch
NewFile ==
    /\ apiStage = "done"
    /\ \/ apiResult = Ok("new_file") /\ writeStage = "idle"
       \/ apiResult = Ok("new_file_mr") /\ writeStage = "new_file"
    /\ \E outcome \in CallOutcomes :
          LET res == new_file(outcome)
              review == apiResult = Ok("new_file_mr")
              next == IF review THEN AfterCall("new_file", res) ELSE "done"
          IN  /\ gitCalls' = Append(gitCalls,
                      [args |-> IF review THEN NewFileMrCalls(record.val)[2]
                                ELSE NewFileCall(record.val),
                       res |-> res])
              /\ writeStage' = next
              /\ writeResult' = IF review
                                THEN MrResult(next, res, writeResult)
                                ELSE res
    /\ UNCHANGED <<parseVars, b85Vars, fieldVars, buildVars, resolveVars>>
    /\ UNCHANGED <<handlerVars, dispatchVars>>

\* self.new_merge_request(..).await?; Ok(())
NewMergeRequest ==
    /\ apiStage = "done" /\ apiResult = Ok("new_file_mr")
    /\ writeStage = "new_merge_request"
    /\ \E outcome \in CallOutcomes :
          LET res == new_merge_request(outcome)
              next == AfterCall("new_merge_request", res)
          IN  /\ gitCalls' = Append(gitCalls,
                      [args |-> NewFileMrCalls(record.val)[3], res |-> res])
              /\ writeStage' = next
              /\ writeResult' = MrResult(next, res, writeResult)
    /\ UNCHANGED <<parseVars, b85Vars, fieldVars, buildVars, resolveVars>>
    /\ UNCHANGED <<handlerVars, dispatchVars>>

NextBuild ==
    RenderEntry \/ ChooseWrite \/ NewBranch \/ NewFile \/ NewMergeRequest

SpecBuild == InitBuild /\ [][NextBuild]_vars

(***************************************************************************)
(* SpecResolve: a NewEntry resolves one placeholder name                    *)
(***************************************************************************)
\* names starting with '@'
AtNames ==
    {
     <<64, 105, 100>>,  \* "@id"
     <<64, 105, 100, 120>>,  \* "@idx"
     <<64, 105>>,  \* "@i"
     <<64, 116, 105, 109, 101, 115, 116, 97, 109, 112>>,  \* "@timestamp"
     <<64, 116, 105, 109, 101, 115, 116, 97, 109, 112, 115>>,  \* "@timestamps"
     <<64, 98, 114, 97, 110, 99, 104>>,  \* "@branch"
     <<64, 98, 114, 97, 110, 99, 104, 46, 97>>,  \* "@branch.a"
     <<64, 98, 114, 97, 110, 99, 104, 88>>,  \* "@branchX"
     <<64, 98, 114, 97, 110>>,  \* "@bran"
     <<64, 100, 97, 116, 101, 58>>,  \* "@date:"
     <<64, 100, 97, 116, 101, 58, 37, 89>>,  \* "@date:%Y"
     <<64, 100, 97, 116, 101, 58, 97, 37, 89, 45, 37, 109>>,  \* "@date:a%Y-%m"
     <<64, 100, 97, 116, 101>>,  \* "@date"
     <<64>>,  \* "@"
     <<64, 102, 105, 101, 108, 100, 115, 46, 97>>,  \* "@fields.a"
     <<64, 120>>  \* "@x"
    }

\* names not starting with '@'
DottedNames ==
    {
     <<102, 105, 101, 108, 100, 115, 46, 97>>,  \* "fields.a"
     <<102, 105, 101, 108, 100, 115, 46, 98>>,  \* "fields.b"
     <<102, 105, 101, 108, 100, 115, 46, 97, 46, 98>>,  \* "fields.a.b"
     <<112, 97, 114, 97, 109, 115, 46, 112>>,  \* "params.p"
     <<112, 97, 114, 97, 109, 115, 46, 97>>,  \* "params.a"
     <<112, 97, 114, 97, 109, 115, 46, 112, 46, 113>>,  \* "params.p.q"
     <<102, 105, 101, 108, 100, 115>>,  \* "fields"
     <<102, 105, 101, 108, 100, 115, 46>>,  \* "fields."
     <<112, 97, 114, 97, 109, 115, 46>>,  \* "params."
     <<46, 97>>,  \* ".a"
     <<>>,  \* ""
     <<97>>,  \* "a"
     <<111, 116, 104, 101, 114, 46, 97>>,  \* "other.a"
     <<120, 46, 102, 105, 101, 108, 100, 115, 46, 97>>,  \* "x.fields.a"
     <<102, 105, 101, 108, 100, 115, 97>>,  \* "fieldsa"
     <<102, 105, 101, 108, 100, 115, 46, 64, 105, 100>>,  \* "fields.@id"
     <<102, 105, 101, 108, 100, 115, 46, 46, 97>>  \* "fields..a"
    }

PlaceholderNames == AtNames \cup DottedNames

S_a_b == <<97, 46, 98>>  \* "a.b"
S_p_q == <<112, 46, 113>>  \* "p.q"

\* the entries asked: field and parameter maps without keys, with plain
\* keys, with keys that contain a '.', with the empty key
ResolveEntries ==
    {NewEntryOf(br, f, p) :
        br \in {<<>>, S_dev},
        f \in {EmptyMap, [k \in {S_a} |-> S_x],
                [k \in {S_a, S_a_b} |-> IF k = S_a THEN S_x ELSE S_v],
                [k \in {<<>>} |-> S_main]},
        p \in {EmptyMap, [k \in {S_p} |-> S_v],
                [k \in {S_a, S_p_q} |-> IF k = S_a THEN <<>> ELSE S_x]}}

InitResolve ==
    /\ IdleHandler
    /\ IdleDispatch
    /\ IdleWrite
    /\ text = <<>>
    /\ template = <<>>
    /\ tokens = <<>>
    /\ parserEnded = FALSE
    /\ rendered = Unset
    /\ resolver \in {EntryResolver(e) : e \in ResolveEntries}
    /\ IdleBase85
    /\ IdleFields
    /\ IdleBuild
    /\ askedName \in PlaceholderNames
    /\ resolution = Unset

\* self.render(placeholder)
Resolve ==
    /\ resolution = Unset
    /\ resolver.kind = "NewEntry"
    /\ resolution' = Render(resolver, askedName)
    /\ UNCHANGED <<parseVars, b85Vars, fieldVars, buildVars, askedName,
                   writeVars>>
    /\ UNCHANGED <<handlerVars, dispatchVars>>

\* the resolved value goes into the output: YTok::from(value)
ResolvedToken ==
    /\ resolution # Unset
    /\ rendered = Unset
    /\ rendered' = Val(display_ref(render_placeholder(
                            resolver, Placeholder(askedName))))
    /\ UNCHANGED <<template, resolver, text, tokens, parserEnded, b85Vars,
                   fieldVars, buildVars, resolveVars, writeVars>>
    /\ UNCHANGED <<handlerVars, dispatchVars>>

NextResolve == Resolve \/ ResolvedToken

SpecResolve == InitResolve /\ [][NextResolve]_vars

(***************************************************************************)
(* SpecHandler: post_comment_handler on one request                         *)
(*   parse the body and the query; NewEntry::new;                           *)
(*   cfg.backends.get(&backend), cfg.entries.get(&entry_type);              *)
(*   newentry.process_fields(conf.field_config())?;                         *)
(*   backend.new_client().await?;                                           *)
(*   backend.new_entry(conf, newentry).await                                *)
(* process_fields runs the actions of SpecFields, GitlabAPI::new_entry      *)
(* those of SpecBuild.                                                      *)
(***************************************************************************)
\* Config.backends of the model: the driver of each configured backend
Backends == [b \in {"gitlab", "debug"} |->
                IF b = "gitlab" THEN "Gitlab" ELSE "Debug"]

\* the keys of Config.entries of the model; econf is the configuration of
\* the one entry type
EntryTypes == {"comment"}

\* the ways the request fails to parse, with the handler's message
ParseErrors ==
    [bad_form |-> "Bad Form entry", bad_payload |-> "Bad payload",
     bad_json |-> "Bad json entry", bad_yaml |-> "Bad yaml entry",
     bad_content_type |-> "Bad Content-Type", bad_query |-> "Bad query args"]

HandlerFields ==
    {EmptyMap, [k \in {S_a} |-> V_A_b], [k \in {S_a} |-> V_1h],
     [k \in {S_a, S_c} |-> IF k = S_a THEN V_A_b ELSE V_1h]}

HandlerFieldConfigs ==
    [allowed : {{S_a, S_b}},
     required : {{}, {S_a}},
     extra : {EmptyMap},
     transforms : {<<>>, <<FieldTransform(S_a, "FromBase85")>>}]

HandlerGitConfig ==
    [path |-> S_data_entries, filename |-> T_default_filename,
     branch |-> S_main, review_branch |-> T_default_review_branch,
     mr_description |-> T_default_mr_description,
     commit_message |-> T_default_commit_message]

HandlerEntryConfigs ==
    [disabled : {FALSE},
     debug : BOOLEAN,
     fields : HandlerFieldConfigs,
     review : BOOLEAN,
     format : {"Yaml"},
     git : {None, Some(HandlerGitConfig)}]

InitHandler ==
    /\ IdleDispatch
    /\ IdleWrite
    /\ IdleResolve
    /\ IdleRender
    /\ IdleBase85
    /\ \E f \in HandlerFields :
          /\ entry = NewEntryOf(S_main, f, EmptyMap)
          /\ submitted = f
    /\ econf \in HandlerEntryConfigs
    /\ fconf = econf.fields
    /\ stage = "idle"
    /\ calls = <<>>
    /\ extraOrder = <<>>
    /\ generated = Unset
    /\ presult = Unset
    /\ bentry = NewEntryOf(<<>>, EmptyMap, EmptyMap)
    /\ tableOk = TRUE
    /\ serializeOk \in BOOLEAN
    /\ apiStage = "idle"
    /\ record = Unset
    /\ apiResult = Unset
    /\ templatesRendered = <<>>
    /\ hrequest \in {"ok"} \cup DOMAIN ParseErrors
    /\ hbackend \in DOMAIN Backends \cup {"nosuch"}
    /\ hentryType \in EntryTypes \cup {"nosuch"}
    /\ hstage = "parse"
    /\ response = Unset
    /\ clientCalls = <<>>

\* the body by content type, then the query: each `?` returns a BadRequest
HandlerParse ==
    /\ hstage = "parse"
    /\ IF hrequest = "ok"
       THEN hstage' = "lookup" /\ UNCHANGED response
       ELSE /\ response' = Err("BadRequest", ParseErrors[hrequest])
            /\ hstage' = "done"
    /\ UNCHANGED <<hrequest, hbackend, hentryType, clientCalls>>
    /\ UNCHANGED <<parseVars, b85Vars, fieldVars, buildVars, resolveVars,
                   writeVars, dispatchVars>>

\* if let (Some(backend), Some(conf)) = (cfg.backends.get(&backend),
\* cfg.entries.get(&entry_type)) {...} else {Err(BadRequest)}; in the first
\* branch process_fields is entered
HandlerLookup ==
    /\ hstage = "lookup"
    /\ IF hbackend \in DOMAIN Backends /\ hentryType \in EntryTypes
       THEN /\ hstage' = "process_fields"
            /\ stage' = "validate"
            /\ UNCHANGED response
       ELSE /\ response' = Err("BadRequest", "Unknown backend or entry type")
            /\ hstage' = "done"
            /\ UNCHANGED stage
    /\ UNCHANGED <<hrequest, hbackend, hentryType, clientCalls>>
    /\ UNCHANGED <<entry, fconf, calls, submitted, extraOrder, generated,
                   presult>>
    /\ UNCHANGED <<parseVars, b85Vars, buildVars, resolveVars, writeVars,
                   dispatchVars>>

\* faulty variant: the result of process_fields is not looked at
HandlerAfterFields_ignoresError ==
    /\ hstage = "process_fields"
    /\ stage = "done"
    /\ hstage' = "new_client"
    /\ UNCHANGED response
    /\ UNCHANGED <<hrequest, hbackend, hentryType, clientCalls>>
    /\ UNCHANGED <<parseVars, b85Vars, fieldVars, buildVars, resolveVars,
                   writeVars, dispatchVars>>

\* the `?` of newentry.process_fields(conf.field_config())?
HandlerAfterFields ==
    /\ hstage = "process_fields"
    /\ stage = "done"
    /\ IF presult # Panic /\ presult.ok
       THEN hstage' = "new_client" /\ UNCHANGED response
       ELSE response' = presult /\ hstage' = "done"
    /\ UNCHANGED <<hrequest, hbackend, hentryType, clientCalls>>
    /\ UNCHANGED <<parseVars, b85Vars, fieldVars, buildVars, resolveVars,
                   writeVars, dispatchVars>>

\* BackendConfig::new_client: a Gitlab client is built, which may fail; the
\* Debug configuration is cloned
new_client(driver, built) ==
    IF driver = "Gitlab" /\ ~built
    THEN Err("InternalError", "Failed to open client")
    ELSE Ok(driver)

\* let mut backend = backend.new_client().await?; then new_entry is entered
\* with the processed entry
HandlerNewClient ==
    /\ hstage = "new_client"
    /\ \E built \in BOOLEAN :
          LET res == new_client(Backends[hbackend], built)
          IN  /\ clientCalls' = Append(clientCalls,
                      [req |-> 1, backend |-> hbackend, res |-> res])
              /\ IF res.ok
                 THEN /\ hstage' = "new_entry"
                      /\ bentry' = entry
                      /\ apiStage' = IF res.val = "Gitlab" THEN "start"
                                     ELSE apiStage
                      /\ UNCHANGED response
                 ELSE /\ response' = res
                      /\ hstage' = "done"
                      /\ UNCHANGED <<bentry, apiStage>>
    /\ UNCHANGED <<hrequest, hbackend, hentryType>>
    /\ UNCHANGED <<econf, tableOk, serializeOk, record, apiResult,
                   templatesRendered>>
    /\ UNCHANGED <<parseVars, b85Vars, fieldVars, resolveVars, writeVars,
                   dispatchVars>>

\* DebugConfig::new_entry: the configuration and the processed entry, as
\* ImpError::Debug, unless their serialization fails
DebugNewEntry(entry_conf, e, ok) ==
    IF ~Serialize("Yaml", ok, entry_conf).ok
    THEN Serialize("Yaml", ok, entry_conf)
    ELSE IF ~Serialize(entry_conf.format, ok, e).ok
    THEN Serialize(entry_conf.format, ok, e)
    ELSE Err("Debug", "processed entry")

\* Backend::new_entry has returned: Ok becomes the empty OK response, an
\* error is the response
HandlerRespond ==
    /\ hstage = "new_entry"
    /\ LET driver == Backends[hbackend]
           ended == \/ driver = "Debug"
                    \/ /\ apiStage = "done"
                       /\ \/ apiResult = Panic
                          \/ ~apiResult.ok
                          \/ writeStage = "done"
           res == IF driver = "Debug"
                  THEN DebugNewEntry(econf, bentry, serializeOk)
                  ELSE IF apiResult = Panic THEN Panic
                  ELSE IF ~apiResult.ok THEN apiResult
                  ELSE writeResult
       IN  /\ ended
           /\ response' = IF res # Panic /\ res.ok THEN Ok("HttpResponse::Ok")
                          ELSE res
    /\ hstage' = "done"
    /\ UNCHANGED <<hrequest, hbackend, hentryType, clientCalls>>
    /\ UNCHANGED <<parseVars, b85Vars, fieldVars, buildVars, resolveVars,
                   writeVars, dispatchVars>>

NextHandler ==
    \/ HandlerParse
    \/ HandlerLookup
    \/ ValidateFields
    \/ GenerateFields
    \/ TransformFields
    \/ HandlerAfterFields
    \/ HandlerNewClient
    \/ RenderEntry
    \/ ChooseWrite
    \/ NewBranch
    \/ NewFile
    \/ NewMergeRequest
    \/ HandlerRespond

SpecHandler == InitHandler /\ [][NextHandler]_vars

(***************************************************************************)
(* SpecDispatch: post_comment_handler on several requests at once.  The     *)
(* server runs the handler of each request concurrently; the requests       *)
(* share the configuration, which no handler changes.  A step is the        *)
(* handler of one request up to its next call.                              *)
(***************************************************************************)
NumRequests == 2

Requests == 1..NumRequests

\* the requests of the model: the backend of the path, and whether its
\* fields pass process_fields
InitDispatch ==
    /\ IdleHandler
    /\ IdleWrite
    /\ IdleResolve
    /\ IdleRender
    /\ IdleBase85
    /\ IdleFields
    /\ IdleBuild
    /\ reqs \in [Requests ->
                    [backend : DOMAIN Backends \cup {"nosuch"},
                     fieldsOk : BOOLEAN,
                     pc : {"lookup"},
                     client : {None},
                     result : {Unset}]]

\* the handlers' steps leave everything but the requests and the clients
\* built as it is
DispatchFrame ==
    /\ UNCHANGED <<hrequest, hbackend, hentryType, hstage, response>>
    /\ UNCHANGED <<parseVars, b85Vars, fieldVars, buildVars, resolveVars,
                   writeVars>>

\* cfg.backends.get(&backend) of a request
DispatchLookup ==
    /\ \E i \in Requests :
          /\ reqs[i].pc = "lookup"
          /\ reqs' = [reqs EXCEPT ![i] =
                        IF @.backend \in DOMAIN Backends
                        THEN [@ EXCEPT !.pc = "process_fields"]
                        ELSE [@ EXCEPT !.pc = "done",
                                !.result = Err("BadRequest",
                                    "Unknown backend or entry type")]]
    /\ UNCHANGED clientCalls
    /\ DispatchFrame

\* newentry.process_fields(conf.field_config())? of a request
DispatchProcessFields ==
    /\ \E i \in Requests :
          /\ reqs[i].pc = "process_fields"
          /\ reqs' = [reqs EXCEPT ![i] =
                        IF @.fieldsOk
                        THEN [@ EXCEPT !.pc = "new_client"]
                        ELSE [@ EXCEPT !.pc = "done",
                                !.result = Err("BadRequest",
                                               "process_fields")]]
    /\ UNCHANGED clientCalls
    /\ DispatchFrame

\* backend.new_client().await? of a request: the handler builds a client
\* of its own from the backend configuration
DispatchNewClient ==
    /\ \E i \in Requests, built \in BOOLEAN :
          LET res == new_client(Backends[reqs[i].backend], built)
          IN  /\ reqs[i].pc = "new_client"
              /\ clientCalls' = Append(clientCalls,
                      [req |-> i, backend |-> reqs[i].backend, res |-> res])
              /\ reqs' = [reqs EXCEPT ![i] =
                            IF res.ok
                            THEN [@ EXCEPT !.pc = "new_entry",
                                    !.client = Some(Len(clientCalls) + 1)]
                            ELSE [@ EXCEPT !.pc = "done", !.result = res]]
    /\ DispatchFrame

\* backend.new_entry(conf, newentry).await of a request, on its client
DispatchNewEntry ==
    /\ \E i \in Requests, ok \in BOOLEAN :
          /\ reqs[i].pc = "new_entry"
          /\ reqs' = [reqs EXCEPT ![i] =
                        [@ EXCEPT !.pc = "done",
                           !.result = IF ok THEN Ok("HttpResponse::Ok")
                                      ELSE Err("BadRequest", "new_entry")]]
    /\ UNCHANGED clientCalls
    /\ DispatchFrame

NextDispatch ==
    \/ DispatchLookup
    \/ DispatchProcessFields
    \/ DispatchNewClient
    \/ DispatchNewEntry

SpecDispatch == InitDispatch /\ [][NextDispatch]_vars

(***************************************************************************)
(* SpecIsolation: several requests go through process_fields and            *)
(* EntryConfig::render at once, against one configuration.  Each handler    *)
(* owns its NewEntry (process_fields and render take it by value) and       *)
(* borrows the configuration immutably (&FieldConfig, &self).  A step is    *)
(* one stage of one request.                                                *)
(***************************************************************************)
IsolationFieldConfigs ==
    [allowed : {{S_a, S_b}},
     required : {{S_a}},
     extra : {EmptyMap,
              [k \in {S_a, S_c} |->
                  IF k = S_a THEN T_x_params_p ELSE T_fields_a_id]},
     transforms : {<<>>, <<FieldTransform(S_a, "FromBase85")>>}]

IsolationEntries ==
    {NewEntryOf(b, f, EmptyMap) :
        b \in {S_main, S_dev},
        f \in {[k \in {S_a} |-> V_A_b], [k \in {S_b} |-> V_A_b],
               [k \in {S_a} |-> V_1h]}}

\* the configuration, the order in which its extra map is iterated (the
\* same for every request: the map is never changed), and the requests,
\* each with its own entry
InitIsolation ==
    /\ IdleHandler
    /\ IdleWrite
    /\ IdleResolve
    /\ IdleRender
    /\ IdleBase85
    /\ fconf \in IsolationFieldConfigs
    /\ econf \in {c \in HandlerEntryConfigs :
                     c.fields = fconf /\ c.git # None /\ ~c.debug}
    /\ extraOrder \in Orders(DOMAIN fconf.extra)
    /\ entry = NewEntryOf(<<>>, EmptyMap, EmptyMap)
    /\ stage = "idle"
    /\ calls = <<>>
    /\ submitted = EmptyMap
    /\ generated = Unset
    /\ presult = Unset
    /\ bentry = NewEntryOf(<<>>, EmptyMap, EmptyMap)
    /\ tableOk = TRUE
    /\ serializeOk = TRUE
    /\ apiStage = "idle"
    /\ record = Unset
    /\ apiResult = Unset
    /\ templatesRendered = <<>>
    /\ reqs \in [Requests ->
                    {[input |-> e, entry |-> e, pc |-> "validate",
                      tableOrder |-> <<>>, result |-> Unset] :
                        e \in IsolationEntries}]

\* faulty variant: every handler works on the entry of the first request
OwnEntry_shared(i) == reqs[1].entry

\* self of process_fields / the entry argument of render, in the handler
\* of request i
OwnEntry(i) == reqs[i].entry

\* the steps of the handlers leave everything but the requests as it is:
\* the configuration is borrowed immutably
IsolationFrame ==
    /\ UNCHANGED <<handlerVars, fieldVars, buildVars>>
    /\ UNCHANGED <<parseVars, b85Vars, resolveVars, writeVars>>

\* self.validate_fields(&conf)? of a request
IsolationValidate ==
    /\ \E i \in Requests :
          LET r == validate_fields(OwnEntry(i), fconf)
          IN  /\ reqs[i].pc = "validate"
              /\ reqs' = [reqs EXCEPT ![i] =
                            IF r.ok
                            THEN [@ EXCEPT !.entry = r.val,
                                           !.pc = "generate"]
                            ELSE [@ EXCEPT !.result = r, !.pc = "done"]]
    /\ IsolationFrame

\* .generate_fields(&conf.extra)? of a request
IsolationGenerate ==
    /\ \E i \in Requests :
          LET r == generate_fields(OwnEntry(i), fconf.extra, extraOrder)
          IN  /\ reqs[i].pc = "generate"
              /\ reqs' = [reqs EXCEPT ![i] =
                            [@ EXCEPT !.entry = r.val, !.pc = "transform"]]
    /\ IsolationFrame

\* .transform_fields(&conf.transforms) of a request, and the `?` on the
\* result of process_fields
IsolationTransform ==
    /\ \E i \in Requests :
          LET r == transform_fields(OwnEntry(i), fconf.transforms,
                                    overflowChecks)
          IN  /\ reqs[i].pc = "transform"
              /\ reqs' = [reqs EXCEPT ![i] =
                            IF r # Panic /\ r.ok
                            THEN [@ EXCEPT !.entry = r.val, !.pc = "render"]
                            ELSE [@ EXCEPT !.result = r, !.pc = "done"]]
    /\ IsolationFrame

\* entry_conf.render(entry) of a request; the entry's field map is
\* iterated in some order for the table
IsolationRender ==
    /\ \E i \in Requests :
          \E order \in Orders(DOMAIN OwnEntry(i).fields) :
              /\ reqs[i].pc = "render"
              /\ reqs' = [reqs EXCEPT ![i] =
                            [@ EXCEPT !.tableOrder = order,
                                      !.result = EntryConfigRender(
                                          econf, OwnEntry(i), order, tableOk),
                                      !.pc = "done"]]
    /\ IsolationFrame

NextIsolation ==
    \/ IsolationValidate
    \/ IsolationGenerate
    \/ IsolationTransform
    \/ IsolationRender

SpecIsolation == InitIsolation /\ [][NextIsolation]_vars

(***************************************************************************)
(* Claims on SpecRender                                                     *)
(***************************************************************************)
Range(s) == {s[i] : i \in 1..Len(s)}

\* the value a resolver gives for a name, the empty string when it gives none
ResolvedOrNothing(r, name) ==
    LET v == Render(r, name) IN IF v = None THEN <<>> ELSE v.val

\* Reference rendering, one byte at a time: outside a placeholder a byte
\* other than '{' is output; '{' opens a placeholder name; inside a name
\* the next '}' closes it and outputs the resolver's value for the name, if
\* any; a name still open at the end of the template outputs nothing.
RECURSIVE ScanRender(_, _, _, _, _, _)
ScanRender(t, r, i, inside, name, out) ==
    IF i > Len(t) THEN out
    ELSE IF ~inside
    THEN IF t[i] = LBRACE
         THEN ScanRender(t, r, i + 1, TRUE, <<>>, out)
         ELSE ScanRender(t, r, i + 1, FALSE, <<>>, Append(out, t[i]))
    ELSE IF t[i] = RBRACE
         THEN ScanRender(t, r, i + 1, FALSE, <<>>,
                         out \o ResolvedOrNothing(r, name))
         ELSE ScanRender(t, r, i + 1, TRUE, Append(name, t[i]), out)

\* C1: render_str returns the concatenation, in source order, of the
\* template's literal runs and the resolver's values for the placeholders it
\* resolves; an unresolved placeholder and a trailing unterminated
\* placeholder contribute nothing.
C1_RenderIsConcatenation ==
    rendered # Unset =>
        rendered.val = ScanRender(template, resolver, 1, FALSE, <<>>, <<>>)

\* "a{b}{a" with a resolving to "x" and b unresolved renders as "a": the
\* unresolved {b} and the unterminated {a are dropped
C1_Witness ==
    /\ rendered = Val(<<97>>)
    /\ template = <<97, LBRACE, 98, RBRACE, LBRACE>>
    /\ S_b \notin DOMAIN resolver.map

\* "{a}b" with a resolving to "x" renders as "xb"
C1_WitnessResolved ==
    /\ rendered = Val(<<120, 98>>)
    /\ template = <<LBRACE, 97, RBRACE, 98>>

\* the number of template bytes a token covers
TokenWidth(tok) ==
    CASE tok.kind = "Literal" -> Len(tok.s)
      [] tok.kind = "Placeholder" -> Len(tok.s) + 2
      [] tok.kind = "Unterminated" -> Len(tok.s) + 1
      [] OTHER -> 0

RECURSIVE WidthBefore(_, _)
WidthBefore(toks, k) ==
    IF k <= 1 THEN 0 ELSE WidthBefore(toks, k - 1) + TokenWidth(toks[k - 1])

\* token k of toks obeys the tokenizing rule at its place in template t
TokenObeysRule(t, toks, k, remaining) ==
    LET tok == toks[k]
        start == WidthBefore(toks, k) + 1
        n == Len(tok.s)
    IN  CASE tok.kind = "Literal" ->
               /\ n >= 1
               /\ start + n - 1 <= Len(t)
               /\ tok.s = SubSeq(t, start, start + n - 1)
               /\ LBRACE \notin Range(tok.s)
               /\ (start + n <= Len(t) => t[start + n] = LBRACE)
          [] tok.kind = "Placeholder" ->
               /\ start + n + 1 <= Len(t)
               /\ t[start] = LBRACE
               /\ tok.s = SubSeq(t, start + 1, start + n)
               /\ RBRACE \notin Range(tok.s)
               /\ t[start + n + 1] = RBRACE
          [] tok.kind = "Unterminated" ->
               /\ t[start] = LBRACE
               /\ tok.s = SubSeq(t, start + 1, Len(t))
               /\ RBRACE \notin Range(tok.s)
               /\ k = Len(toks)
               /\ remaining = <<>>
          [] OTHER -> FALSE

\* C2: SimpleParser yields tokens in source order: text up to the next '{'
\* is a Literal (a '}' outside a placeholder stays in it); from a '{' to the
\* next '}' the text between is a Placeholder; a '{' with no later '}'
\* yields one Unterminated token holding the rest, the last token.
C2_TokensFollowRule ==
    /\ \A k \in 1..Len(tokens) : TokenObeysRule(template, tokens, k, text)
    /\ WidthBefore(tokens, Len(tokens) + 1) + Len(text) = Len(template)
    /\ text = SubSeq(template, Len(template) - Len(text) + 1, Len(template))
    /\ parserEnded => text = <<>>

\* "}{{}{" gives Literal("}"), Placeholder("{"), Unterminated("")
C2_Witness ==
    /\ parserEnded
    /\ tokens = <<Literal(<<RBRACE>>), Placeholder(<<LBRACE>>),
                  Unterminated(<<>>)>>

(***************************************************************************)
(* Claims on SpecBase85                                                     *)
(***************************************************************************)
\* C7: for every byte sequence b, decode(encode(b)) = b.
C7_RoundTrip ==
    /\ \A i \in 0..84 : DecodeIndex(B85Chars[i + 1]) = i
    /\ (b85Bytes # Unset /\ b85Text # Unset /\ b85Out # Unset) =>
           b85Out = b85Bytes

\* nine bytes: one full chunk and a remainder of one byte
C7_Witness ==
    /\ b85Bytes # Unset /\ b85Text # Unset /\ b85Out # Unset
    /\ Len(b85Bytes.val) = 9
    /\ b85Bytes.val[1] = 255
    /\ Len(b85Text.val) = 12

\* the text without the characters that are no base85 symbol
OnlySymbols(t) == SelectSeq(t, LAMBDA c : c < 128 /\ DecodeIndex(c) # -1)

\* C8: decode ignores every character outside the alphabet, decode(s) =
\* decode(s without those characters), and returns bytes rather than failing.
C8_DecodeIgnoresOthers ==
    b85Out # Unset =>
        /\ b85Out = decode(OnlySymbols(b85Text.val), overflowChecks)
        /\ b85Out # Panic

\* the part of C8 about the characters outside the alphabet alone
C8_SameAsWithoutOthers ==
    b85Out # Unset =>
        b85Out = decode(OnlySymbols(b85Text.val), overflowChecks)

C8_WitnessOthers ==
    /\ b85Bytes = Unset
    /\ b85Out # Unset /\ b85Out # Panic
    /\ Len(OnlySymbols(b85Text.val)) = 10
    /\ Len(b85Text.val) > 12

(***************************************************************************)
(* Claims on SpecFields                                                     *)
(***************************************************************************)
MissingError == Err("BadRequest", "Missing field(s)")
UnknownError == Err("BadRequest", "Unknown field(s)")

\* validate_fields has been called and has failed / has succeeded
ValidationFailed == Len(calls) = 1 /\ stage = "done"
ValidationPassed == Len(calls) >= 1 /\ ~ValidationFailed

\* C3: validate_fields succeeds iff every required name is a submitted key
\* and every submitted key is allowed; it fails with "Missing field(s)" when
\* a required name is absent and with "Unknown field(s)" when a present key
\* is not allowed (and nothing required is absent); on success the entry is
\* returned with its field map unchanged.
C3_ValidateFields ==
    LET keys == DOMAIN submitted
        missing == \E n \in fconf.required : n \notin keys
        unknown == \E k \in keys : k \notin fconf.allowed
    IN  Len(calls) >= 1 =>
            /\ ValidationPassed <=> (~missing /\ ~unknown)
            /\ (ValidationFailed /\ missing) => presult = MissingError
            /\ (ValidationFailed /\ ~missing) =>
                   (unknown /\ presult = UnknownError)
            /\ stage = "generate" =>
                   /\ entry.fields = submitted
                   /\ fconf.required \subseteq DOMAIN entry.fields
                   /\ DOMAIN entry.fields \subseteq fconf.allowed

\* validation just passed with a required field, and an allowed field absent
C3_Witness ==
    /\ stage = "generate"
    /\ fconf.required = {S_a}
    /\ DOMAIN submitted = {S_a}
    /\ fconf.allowed = {S_a, S_b}

\* the generated names iterated before name in extraOrder
GeneratedBefore(name) ==
    {extraOrder[j] : j \in {i \in 1..Len(extraOrder) :
                               \E k \in (i + 1)..Len(extraOrder) :
                                   extraOrder[k] = name}}

\* the entry a generated field's template sees: the submitted fields, with
\* the fields generated before it at their generated values
EntrySeenBy(name) ==
    LET earlier == GeneratedBefore(name)
    IN  [entry EXCEPT
            !.fields = [k \in DOMAIN submitted \cup earlier |->
                           IF k \in earlier THEN generated.val[k]
                           ELSE submitted[k]]]

\* C4: the generate stage never rejects a field name: after generate_fields
\* every name in extra maps to its template rendered against the entry,
\* allowed or not and replacing a submitted value; every other submitted
\* field is unchanged; the keys are the submitted keys and extra's names.
C4_GenerateFields ==
    Len(calls) >= 2 =>
        /\ Len(calls) = 2 => stage = "transform"
        /\ generated # Unset
        /\ DOMAIN generated.val = DOMAIN submitted \cup DOMAIN fconf.extra
        /\ \A k \in DOMAIN submitted \ DOMAIN fconf.extra :
               generated.val[k] = submitted[k]
        /\ \A name \in DOMAIN fconf.extra :
               generated.val[name] =
                   ScanRender(fconf.extra[name],
                              EntryResolver(EntrySeenBy(name)),
                              1, FALSE, <<>>, <<>>)

\* a is submitted and generated, c is generated and not allowed
C4_Witness ==
    /\ stage = "transform"
    /\ S_a \in DOMAIN submitted
    /\ S_a \in DOMAIN fconf.extra
    /\ S_c \in DOMAIN fconf.extra /\ S_c \notin fconf.allowed
    /\ generated.val[S_a] # submitted[S_a]
    /\ S_c \in DOMAIN generated.val

\* a required name is not submitted, or a submitted name is not allowed
SubmittedInvalid ==
    \/ \E n \in fconf.required : n \notin DOMAIN submitted
    \/ \E k \in DOMAIN submitted : k \notin fconf.allowed

StageOrder == <<"validate_fields", "generate_fields", "transform_fields">>

\* C5: process_fields runs validate, generate, transform in that order and
\* stops at the first failing stage: when validation fails nothing is
\* generated or transformed and the validation error is the result; when a
\* transform fails the result is that error and no entry is returned.
C5_FailFastInOrder ==
    /\ Len(calls) <= 3
    /\ calls = SubSeq(StageOrder, 1, Len(calls))
    /\ (SubmittedInvalid /\ stage = "done") =>
           /\ calls = <<"validate_fields">>
           /\ presult \in {MissingError, UnknownError}
           /\ generated = Unset /\ extraOrder = <<>>
           /\ entry.fields = submitted
    /\ (stage = "done" /\ Len(calls) = 3) =>
           \/ presult = Panic
           \/ presult.ok /\ presult.val = entry
           \/ ~presult.ok /\ presult.kind = "FromUtf8Error"
    /\ stage = "done" => presult # Unset

\* validation failed although a generated field and a transform are
\* configured
C5_Witness ==
    /\ stage = "done"
    /\ presult = UnknownError
    /\ fconf.extra # EmptyMap
    /\ fconf.transforms # <<>>

\* a transform failed
C5_WitnessTransform ==
    /\ stage = "done"
    /\ presult # Unset /\ presult # Panic
    /\ ~presult.ok /\ presult.kind = "FromUtf8Error"

\* the transforms of the list that name field f, applied in list order to v
RECURSIVE ChainOn(_, _, _)
ChainOn(kinds, v, checks) ==
    IF kinds = <<>> THEN Ok(v)
    ELSE LET r == ApplyTransform(Head(kinds), v, checks)
         IN  IF r = Panic THEN Panic
             ELSE IF ~r.ok THEN r
             ELSE ChainOn(Tail(kinds), r.val, checks)

KindsFor(f) ==
    LET ts == SelectSeq(fconf.transforms, LAMBDA t : t.field = f)
    IN  [i \in 1..Len(ts) |-> ts[i].transform]

ChainFor(f) == ChainOn(KindsFor(f), generated.val[f], overflowChecks)

\* C6: transform_fields applies the transforms in list order, each to the
\* current value of its field, so a later transform on a field receives the
\* output of the earlier one; a transform on an absent field is skipped and
\* does not create it; fields named by no transform are unchanged.
C6_TransformsInOrder ==
    (stage = "done" /\ Len(calls) = 3) =>
        LET chainsOk == \A f \in DOMAIN generated.val :
                            ChainFor(f) # Panic /\ ChainFor(f).ok
        IN  /\ (presult # Panic /\ presult.ok) <=> chainsOk
            /\ (presult # Panic /\ presult.ok) =>
                   /\ DOMAIN presult.val.fields = DOMAIN generated.val
                   /\ \A f \in DOMAIN generated.val :
                          presult.val.fields[f] = ChainFor(f).val

\* two transforms on a, a third field untouched, a transform on absent c
C6_Witness ==
    /\ stage = "done" /\ Len(calls) = 3
    /\ presult # Panic /\ presult.ok
    /\ fconf.transforms = <<FieldTransform(S_a, "ToBase85"),
                            FieldTransform(S_a, "Slugify")>>
    /\ DOMAIN generated.val = {S_a, S_b}
    /\ presult.val.fields[S_a] # generated.val[S_a]

C6_WitnessAbsent ==
    /\ stage = "done" /\ Len(calls) = 3
    /\ presult # Panic /\ presult.ok
    /\ fconf.transforms = <<FieldTransform(S_c, "Sha256")>>
    /\ S_c \notin DOMAIN presult.val.fields

(***************************************************************************)
(* Claims on SpecBuild                                                      *)
(***************************************************************************)
BranchNotAllowedError == Err("BadRequest", "Branch not allowed")

\* the configured branch template rendered against the entry
RenderedBranch ==
    ScanRender(econf.git.val.branch, EntryResolver(bentry), 1, FALSE,
               <<>>, <<>>)

\* C9: branch pinning: with the configured branch template rendered against
\* the entry, a non-empty value other than the entry's target branch fails
\* the build with "Branch not allowed"; an empty or equal value passes the
\* branch check.
C9_BranchPinning ==
    (record # Unset /\ bentry.branch # <<>> /\ econf.git # None) =>
        /\ (RenderedBranch # <<>> /\ RenderedBranch # bentry.branch) =>
               record = BranchNotAllowedError
        /\ (RenderedBranch = <<>> \/ RenderedBranch = bentry.branch) =>
               record # BranchNotAllowedError

\* the template "main" and a request for "dev"
C9_Witness ==
    /\ record = BranchNotAllowedError
    /\ econf.git # None /\ econf.git.val.branch = S_main
    /\ bentry.branch = S_dev

\* a template that renders empty, and a record for "dev"
C9_WitnessEmpty ==
    /\ record # Unset /\ record.ok
    /\ econf.git.val.branch = T_params_p
    /\ bentry.branch = S_dev

\* C10: every Record the builder returns has its review branch and its
\* review description both present (review flag true) or both absent
\* (review flag false), so the unwrap of the description in
\* GitlabAPI::new_entry never fails.
C10_ReviewMetadataPaired ==
    /\ (record # Unset /\ record.ok) =>
           /\ (record.val.review_branch = None) <=>
                  (record.val.mr_description = None)
           /\ econf.review <=> record.val.review_branch # None
    /\ apiResult # Panic

\* a record with review metadata went through the unwrap
C10_Witness ==
    /\ apiStage = "done"
    /\ apiResult = Ok("new_file_mr")
    /\ record.val.review_branch # None
    /\ record.val.mr_description # None

MustSpecifyBranchError == Err("BadRequest", "Must specify branch")
MissingGitConfigError ==
    Err("BadRequest", "missing git entry configuration")

\* C11: the record builder fails, producing no Record, with "Must specify
\* branch" when the entry's target branch is empty and with "missing git
\* entry configuration" when the entry type has no git sub-config; in both
\* cases no template is rendered.
C11_FailsWithoutBranchOrGit ==
    record # Unset =>
        /\ bentry.branch = <<>> =>
               record = MustSpecifyBranchError /\ templatesRendered = <<>>
        /\ (bentry.branch # <<>> /\ econf.git = None) =>
               record = MissingGitConfigError /\ templatesRendered = <<>>
        /\ (bentry.branch # <<>> /\ econf.git # None) =>
               templatesRendered # <<>>

\* an entry without a branch for an entry type without git sub-config
C11_Witness ==
    /\ record = MustSpecifyBranchError
    /\ bentry.branch = <<>>
    /\ econf.git = None
    /\ apiStage = "done"

C11_WitnessNoGit ==
    /\ record = MissingGitConfigError
    /\ bentry.branch = S_dev

\* the path and filename templates rendered against the entry
RenderedPath ==
    ScanRender(econf.git.val.path, EntryResolver(bentry), 1, FALSE,
               <<>>, <<>>)
RenderedFilename ==
    ScanRender(econf.git.val.filename, EntryResolver(bentry), 1, FALSE,
               <<>>, <<>>)

\* p has a component ".."
HasDotDot(p) ==
    \E i \in 1..(Len(p) - 1) :
        /\ p[i] = 46 /\ p[i + 1] = 46
        /\ (i = 1 \/ p[i - 1] = 47)
        /\ (i + 1 = Len(p) \/ p[i + 2] = 47)

\* C12: the Record's file path is a relative path formed from the rendered
\* path template followed by the rendered filename template, and stays
\* under the rendered path directory whatever values the filename takes.
C12_FilePathUnderPath ==
    (record # Unset /\ record.ok) =>
        /\ \E sep \in {<<>>, <<47>>} :
               record.val.file_path = RenderedPath \o sep \o RenderedFilename
        /\ record.val.file_path = <<>> \/ record.val.file_path[1] # 47
        /\ ~HasDotDot(record.val.file_path)

\* the first part of C12 for filenames that are relative
C12_JoinedWhenRelative ==
    (record # Unset /\ record.ok
         /\ (RenderedFilename = <<>> \/ RenderedFilename[1] # 47)) =>
        \E sep \in {<<>>, <<47>>} :
            record.val.file_path = RenderedPath \o sep \o RenderedFilename

(***************************************************************************)
(* Claims on SpecResolve                                                    *)
(***************************************************************************)
\* name begins with the bytes of prefix
BeginsWith(name, prefix) ==
    /\ Len(name) >= Len(prefix)
    /\ \A i \in 1..Len(prefix) : name[i] = prefix[i]

AskedEntry == resolver.entry

C13_WitnessOther ==
    /\ askedName = <<64, 105, 100, 120>>
    /\ resolution # Unset /\ resolution # None
    /\ resolution.val = <<>>

\* the positions of '.' in the asked name
DotsAt == {i \in 1..Len(askedName) : askedName[i] = 46}
FirstDot == CHOOSE i \in DotsAt : \A j \in DotsAt : i <= j
BeforeFirstDot == SubSeq(askedName, 1, FirstDot - 1)
AfterFirstDot == SubSeq(askedName, FirstDot + 1, Len(askedName))

\* the map a left segment names, if any
NamedMap(lhs) ==
    IF lhs = <<102, 105, 101, 108, 100, 115>> THEN Val(AskedEntry.fields)
    ELSE IF lhs = <<112, 97, 114, 97, 109, 115>> THEN Val(AskedEntry.params)
    ELSE None

\* the asked name is <map>.<key> for a key of that map, split at its
\* first '.'
ResolvableAtFirstDot ==
    /\ DotsAt # {}
    /\ NamedMap(BeforeFirstDot) # None
    /\ AfterFirstDot \in DOMAIN NamedMap(BeforeFirstDot).val

\* C14, as claimed: a name not starting with '@' resolves only when it has
\* exactly one '.', its left segment is fields or params and its right
\* segment is a key of that map; every other name is unresolved and renders
\* as nothing.
C14_ExactlyOneDot ==
    (resolution # Unset /\ ~BeginsWith(askedName, <<64>>)) =>
        /\ resolution # None <=>
               (Cardinality(DotsAt) = 1 /\ ResolvableAtFirstDot)
        /\ resolution # None =>
               resolution.val = NamedMap(BeforeFirstDot).val[AfterFirstDot]
        /\ (resolution = None /\ rendered # Unset) => rendered.val = <<>>

\* C14, amended: a name not starting with '@' resolves exactly when it
\* contains a '.', the segment before its first '.' is fields or params and
\* everything after that first '.' (further '.' included) is a key of that
\* map; it then resolves to that key's value; every other name is
\* unresolved and renders as nothing.
C14_SplitAtFirstDot ==
    (resolution # Unset /\ ~BeginsWith(askedName, <<64>>)) =>
        /\ resolution # None <=> ResolvableAtFirstDot
        /\ resolution # None =>
               resolution.val = NamedMap(BeforeFirstDot).val[AfterFirstDot]
        /\ (resolution = None /\ rendered # Unset) => rendered.val = <<>>

\* "fields.a.b" resolves to the value of the field "a.b"
C14_Witness ==
    /\ askedName = <<102, 105, 101, 108, 100, 115, 46, 97, 46, 98>>
    /\ resolution # Unset /\ resolution # None
    /\ resolution.val = S_v
    /\ rendered = Val(S_v)

\* "other.a" is unresolved and renders as nothing
C14_WitnessUnresolved ==
    /\ askedName = <<111, 116, 104, 101, 114, 46, 97>>
    /\ resolution = None
    /\ rendered = Val(<<>>)

(***************************************************************************)
(* Claims on SpecBuild: the write                                           *)
(***************************************************************************)
\* the write has ended
WriteEnded == writeStage = "done"

\* the k-th call is create-branch of the review branch from the target
\* branch / create-file on branch b / create-merge-request from the review
\* branch into the target branch
IsCreateBranch(k) ==
    /\ gitCalls[k].args.call = "new_branch"
    /\ gitCalls[k].args.project = record.val.project_id
    /\ gitCalls[k].args.branch = record.val.review_branch.val
    /\ gitCalls[k].args.ref = record.val.branch
IsCreateFile(k, b) ==
    /\ gitCalls[k].args.call = "new_file"
    /\ gitCalls[k].args.project = record.val.project_id
    /\ gitCalls[k].args.branch = b
    /\ gitCalls[k].args.path = record.val.file_path
    /\ gitCalls[k].args.content.fields = record.val.fields
    /\ gitCalls[k].args.commit_message = record.val.commit_message
IsCreateMergeRequest(k) ==
    /\ gitCalls[k].args.call = "new_merge_request"
    /\ gitCalls[k].args.project = record.val.project_id
    /\ gitCalls[k].args.source_branch = record.val.review_branch.val
    /\ gitCalls[k].args.target_branch = record.val.branch
    /\ gitCalls[k].args.description = record.val.mr_description.val

C15_WitnessDirect ==
    /\ WriteEnded
    /\ writeResult = Ok(<<>>)
    /\ Len(gitCalls) = 1
    /\ record.val.review_branch = None

\* C16: partial failure of the review write: a failed create-branch is
\* followed by no other call; a failed create-file is followed by no
\* create-merge-request and by no call that removes the branch; the failing
\* call's error is what the write returns, unmodified, and no call is made
\* twice.
C16_PartialFailure ==
    /\ \A k \in 1..Len(gitCalls) :
           ~gitCalls[k].res.ok =>
               /\ k = Len(gitCalls)
               /\ WriteEnded
               /\ writeResult = gitCalls[k].res
    /\ \A j, k \in 1..Len(gitCalls) :
           /\ gitCalls[k].args.call \in
                  {"new_branch", "new_file", "new_merge_request"}
           /\ gitCalls[j].args.call = gitCalls[k].args.call => j = k
    /\ (WriteEnded /\ ~writeResult.ok) =>
           /\ gitCalls # <<>>
           /\ writeResult = gitCalls[Len(gitCalls)].res

\* the branch was created, the commit failed: the write ends there
C16_Witness ==
    /\ WriteEnded
    /\ Len(gitCalls) = 2
    /\ gitCalls[1].args.call = "new_branch" /\ gitCalls[1].res.ok
    /\ gitCalls[2].args.call = "new_file"
    /\ writeResult = Err("BadRequest", "Gitlab new_file failed")

C16_WitnessBranch ==
    /\ WriteEnded
    /\ Len(gitCalls) = 1
    /\ writeResult = Err("BadRequest", "Gitlab new_branch failed")

(***************************************************************************)
(* Claims on SpecBuild: the debug return                                    *)
(***************************************************************************)
\* r is an error of the variant `kind`
IsErr(r, kind) == r # Unset /\ r # Panic /\ ~r.ok /\ r.kind = kind

C18_WitnessFailure ==
    /\ econf.debug
    /\ apiStage = "done"
    /\ record = BranchNotAllowedError
    /\ apiResult = BranchNotAllowedError

(***************************************************************************)
(* Claims on SpecFields: the class of a transform failure                   *)
(***************************************************************************)
\* the first transform is from-base85 on a field whose text decodes to
\* bytes that are not UTF-8
FirstDecodesToInvalidUtf8 ==
    /\ fconf.transforms # <<>>
    /\ LET t == fconf.transforms[1]
       IN  /\ t.transform = "FromBase85"
           /\ t.field \in DOMAIN generated.val
           /\ LET d == decode(generated.val[t.field], overflowChecks)
              IN  d # Panic /\ ~Utf8Valid(d.val, 1)

\* C20: a from-base85 transform whose decoded bytes are not valid UTF-8
\* makes field processing fail, with a caller-data error: one of the class
\* of the missing/unknown-field rejections, not an internal error.
C20_InvalidUtf8IsCallerError ==
    (stage = "done" /\ Len(calls) = 3 /\ FirstDecodesToInvalidUtf8) =>
        /\ presult # Panic /\ ~presult.ok
        /\ status_code(presult) = status_code(MissingError)

\* the part of C20 that holds: field processing fails
C20_InvalidUtf8Fails ==
    (stage = "done" /\ Len(calls) = 3 /\ FirstDecodesToInvalidUtf8) =>
        /\ presult # Panic /\ ~presult.ok
        /\ presult.kind = "FromUtf8Error"

(***************************************************************************)
(* Claims on SpecHandler                                                    *)
(***************************************************************************)
\* process_fields has returned an error
FieldsFailed == presult # Unset /\ presult # Panic /\ ~presult.ok

\* C17: a field-processing failure preempts the write: once process_fields
\* has returned an error, the handler opens no backend client, no record is
\* built and no create-branch, create-file or create-merge-request call is
\* made; the handler's response is that error.
C17_FieldFailurePreempts ==
    FieldsFailed =>
        /\ clientCalls = <<>>
        /\ apiStage = "idle" /\ record = Unset /\ templatesRendered = <<>>
        /\ writeStage = "idle" /\ gitCalls = <<>>
        /\ hstage \in {"process_fields", "done"}
        /\ hstage = "done" => response = presult

\* a request whose fields failed has been answered
C17_Witness == FieldsFailed /\ hstage = "done" /\ response = presult

\* a request whose fields passed has led to a client and to backend calls
C17_WitnessWritten ==
    /\ presult # Unset /\ presult # Panic /\ presult.ok
    /\ hstage = "done"
    /\ Len(clientCalls) = 1
    /\ Len(gitCalls) = 3

(***************************************************************************)
(* Claims on SpecDispatch                                                   *)
(***************************************************************************)
\* the clients built for the backend name b
ClientsBuilt(b) ==
    {k \in DOMAIN clientCalls :
        clientCalls[k].backend = b /\ clientCalls[k].res.ok}

\* C19: backend client cache: for each backend name the client constructor
\* is invoked at most once over the whole run, so that at most one client
\* is ever built per name and all requests for that name hold a handle to
\* that one client.
C19_OneClientPerBackend ==
    /\ \A b \in DOMAIN Backends :
          Cardinality({k \in DOMAIN clientCalls :
                          clientCalls[k].backend = b}) <= 1
    /\ \A b \in DOMAIN Backends : Cardinality(ClientsBuilt(b)) <= 1
    /\ \A i, j \in Requests :
          (/\ reqs[i].backend = reqs[j].backend
           /\ reqs[i].client # None /\ reqs[j].client # None)
              => reqs[i].client = reqs[j].client

\* new_entry has rendered the record, is not in debug mode, and serde fails
\* to serialize the field map
FieldSerializationFailed ==
    /\ apiStage = "done"
    /\ record # Unset /\ record.ok
    /\ ~econf.debug
    /\ ~serializeOk
    /\ apiResult # Panic

\* C21: a failure to serialize the final field map into the configured
\* format is reported as an internal error (status 500), not as a
\* bad-request error.
C21_SerializeFailureIsInternal ==
    FieldSerializationFailed =>
        /\ IsErr(apiResult, "InternalError")
        /\ status_code(apiResult) = 500

\* what the code does: the failure is a BadRequest named after the format,
\* status 400, and no call is made
C21_SerializeFailureIsBadRequest ==
    FieldSerializationFailed =>
        /\ IsErr(apiResult, "BadRequest")
        /\ apiResult.msg \in {"Bad yaml output", "Bad json output"}
        /\ status_code(apiResult) = 400
        /\ gitCalls = <<>>

(***************************************************************************)
(* Claims on SpecRender: single-level substitution, termination, nothing    *)
(* lost                                                                     *)
(***************************************************************************)
\* what the tokens toks put into the output: a Literal its text, a
\* Placeholder the resolver's value for its name as it is, an Unterminated
\* nothing
RECURSIVE OutputOf(_, _)
OutputOf(toks, r) ==
    IF toks = <<>> THEN <<>>
    ELSE LET tok == toks[Len(toks)]
             piece == CASE tok.kind = "Literal" -> tok.s
                        [] tok.kind = "Placeholder" ->
                               ResolvedOrNothing(r, tok.s)
                        [] OTHER -> <<>>
         IN  OutputOf(SubSeq(toks, 1, Len(toks) - 1), r) \o piece

\* some placeholder of the tokens resolves to a value containing a brace
ValueWithBraces ==
    \E k \in 1..Len(tokens) :
        /\ tokens[k].kind = "Placeholder"
        /\ Range(ResolvedOrNothing(resolver, tokens[k].s))
               \cap {LBRACE, RBRACE} # {}

\* C22: substitution is single-level: the value the resolver returns for a
\* placeholder is copied into the output as it is and is not tokenized
\* again, so braces in a resolved value appear literally in the output.
C22_SingleLevel ==
    (parserEnded /\ rendered # Unset) =>
        rendered.val = OutputOf(tokens, resolver)

\* "{a}b" with a resolving to "{b}" and b to "": the output is "{b}b"
C22_Witness ==
    /\ parserEnded
    /\ template = <<LBRACE, 97, RBRACE, 98>>
    /\ S_b \in DOMAIN resolver.map
    /\ ValueWithBraces
    /\ rendered = Val(<<LBRACE, 98, RBRACE, 98>>)

\* "{a}" with a resolving to "{a}": the output is "{a}"
C22_WitnessSelf ==
    /\ parserEnded
    /\ template = S_brace_a
    /\ rendered = Val(S_brace_a)

\* C23: tokenizing terminates: a parser with text left returns a token and
\* is left with less text, so the tokens returned are never more than the
\* bytes consumed and at most as many as the template is long; a parser
\* that has returned end-of-sequence has no text left, and a call on a
\* parser with no text left returns end-of-sequence and leaves it so.
C23_TokenizingTerminates ==
    /\ Len(tokens) <= Len(template) - Len(text)
    /\ Len(tokens) <= Len(template)
    /\ text # <<>> =>
           /\ SimpleParserNext(text).item # None
           /\ Len(SimpleParserNext(text).text) < Len(text)
    /\ text = <<>> =>
           SimpleParserNext(text) = [item |-> None, text |-> <<>>]
    /\ parserEnded => text = <<>>

\* "a{": two tokens for two bytes, then end-of-sequence
C23_Witness ==
    /\ parserEnded
    /\ template = <<97, LBRACE>>
    /\ tokens = <<Literal(<<97>>), Unterminated(<<>>)>>
    /\ SimpleParserNext(text).item = None

\* a template of the longest length has been tokenized to its end
C23_WitnessLongest ==
    /\ parserEnded
    /\ Len(template) = MaxTemplateLen
    /\ Len(tokens) >= 2

\* the tokens written back: a Literal as its text, a Placeholder p as
\* '{' p '}', an Unterminated u as '{' u
RECURSIVE WriteBack(_)
WriteBack(toks) ==
    IF toks = <<>> THEN <<>>
    ELSE LET tok == toks[Len(toks)]
             piece == CASE tok.kind = "Literal" -> tok.s
                        [] tok.kind = "Placeholder" ->
                               <<LBRACE>> \o tok.s \o <<RBRACE>>
                        [] tok.kind = "Unterminated" -> <<LBRACE>> \o tok.s
                        [] OTHER -> <<>>
         IN  WriteBack(SubSeq(toks, 1, Len(toks) - 1)) \o piece

\* C28: the tokenizer loses nothing: the tokens written back in order,
\* followed by the text not yet tokenized (none once the parser has ended),
\* are the template; no Literal token is empty and no two Literal tokens
\* are adjacent.
C28_TokensWriteBack ==
    /\ WriteBack(tokens) \o text = template
    /\ parserEnded => WriteBack(tokens) = template
    /\ \A k \in 1..Len(tokens) :
          tokens[k].kind = "Literal" => tokens[k].s # <<>>
    /\ \A k \in 1..(Len(tokens) - 1) :
          ~(tokens[k].kind = "Literal" /\ tokens[k + 1].kind = "Literal")

\* "}{}{b": Literal("}"), Placeholder(""), Unterminated("b")
C28_Witness ==
    /\ parserEnded
    /\ tokens = <<Literal(<<RBRACE>>), Placeholder(<<>>),
                  Unterminated(<<98>>)>>
    /\ WriteBack(tokens) = template

(***************************************************************************)
(* Claims on SpecFields: the order of the validation checks                 *)
(***************************************************************************)
\* the submitted entry lacks a required field and carries a field that is
\* not allowed
MissingAndUnknown ==
    /\ ~(fconf.required \subseteq DOMAIN submitted)
    /\ ~(DOMAIN submitted \subseteq fconf.allowed)

\* C29: when a submitted entry both lacks a required field and carries a
\* field outside `allowed`, validate_fields reports "Missing field(s)": the
\* required check comes first, exactly one error is returned, and
\* process_fields ends with it.
C29_MissingBeforeUnknown ==
    (MissingAndUnknown /\ Len(calls) >= 1) =>
        /\ presult = MissingError
        /\ presult # UnknownError
        /\ calls = <<"validate_fields">>
        /\ stage = "done"
        /\ entry.fields = submitted

\* field c alone was submitted where a is required and only a, b allowed
C29_Witness ==
    /\ MissingAndUnknown
    /\ DOMAIN submitted = {S_c}
    /\ fconf.required = {S_a}
    /\ fconf.allowed = {S_a, S_b}
    /\ presult = MissingError

(***************************************************************************)
(* Claims on SpecGenerate: the order of the generated fields                 *)
(***************************************************************************)
\* the names of the placeholders of the template t
RECURSIVE PlaceholdersOf(_)
PlaceholdersOf(t) ==
    LET n == SimpleParserNext(t)
    IN  IF n.item = None THEN {}
        ELSE (IF n.item.kind = "Placeholder" THEN {n.item.s} ELSE {})
                 \cup PlaceholdersOf(n.text)

\* no template of extra has a placeholder fields.<k> with k a name of extra
NoCrossReference(extra) ==
    \A name \in DOMAIN extra, k \in DOMAIN extra :
        (S_fields \o <<DOT>> \o k) \notin PlaceholdersOf(extra[name])

\* the field maps generate_fields gives for the submitted entry, over all
\* iteration orders of extra
GeneratedMaps ==
    {generate_fields([entry EXCEPT !.fields = submitted], fconf.extra,
                     o).val.fields : o \in Orders(DOMAIN fconf.extra)}

\* C27: the generate stage is order-independent when generated fields do
\* not reference each other: if no template in extra has a placeholder
\* fields.<k> with k a name in extra, generate_fields gives the same field
\* map for every iteration order of extra; in any case each template is
\* rendered against the field map as the fields generated before it left
\* it.
C27_GenerateOrderIndependent ==
    generated # Unset =>
        /\ NoCrossReference(fconf.extra) => GeneratedMaps = {generated.val}
        /\ \A name \in DOMAIN fconf.extra :
               generated.val[name] =
                   GeneratedFieldRender(fconf.extra[name], EntrySeenBy(name))

\* a and c are generated, c from the submitted b: one map for both orders
C27_Witness ==
    /\ generated # Unset
    /\ DOMAIN fconf.extra = {S_a, S_c}
    /\ NoCrossReference(fconf.extra)
    /\ S_b \in DOMAIN submitted
    /\ generated.val[S_c] = submitted[S_b]
    /\ Cardinality(Orders(DOMAIN fconf.extra)) = 2

\* c is generated from the generated a: the two orders give two maps
C27_WitnessDependent ==
    /\ generated # Unset
    /\ ~NoCrossReference(fconf.extra)
    /\ Cardinality(GeneratedMaps) = 2

(***************************************************************************)
(* Claims on SpecFields: the accumulator of base85::decode                  *)
(***************************************************************************)
\* transform_fields has run and its first transform decoded field a
DecodedFieldA ==
    /\ Len(calls) = 3
    /\ Len(fconf.transforms) >= 1
    /\ fconf.transforms[1] = FieldTransform(S_a, "FromBase85")
    /\ S_a \in DOMAIN generated.val

\* C26: for every input string the 64-bit accumulator of base85::decode
\* never overflows, so decoding a caller-supplied field value through the
\* from-base85 transform neither panics (a build with overflow checks) nor
\* wraps (a build without: the same text would panic under the checks).
C26_DecodeNeverOverflows ==
    DecodedFieldA =>
        /\ presult # Panic
        /\ decode(generated.val[S_a], TRUE) # Panic

\* decoding text that base85::encode produced for some bytes of the model
\* does not overflow
C26_EncodedNeverOverflows ==
    \A b \in TestPlaintexts : decode(encode(b), TRUE) # Panic

(***************************************************************************)
(* Claims on SpecBuild: the target of the record                            *)
(***************************************************************************)
\* the record builder has succeeded
RecordBuilt == record # Unset /\ record.ok

\* C25: whenever the record builder succeeds, the Record's target branch is
\* the NewEntry's target branch, and its project id and field map are the
\* NewEntry's, unchanged, for every branch template that passes the branch
\* check.
C25_RecordTargetsEntryBranch ==
    RecordBuilt =>
        /\ record.val.branch = bentry.branch
        /\ record.val.project_id = bentry.project_id
        /\ record.val.fields = bentry.fields

\* what the code does: the Record's branch is the rendered branch template,
\* which is the NewEntry's branch or empty; project id and field map are
\* the NewEntry's
C25_RecordBranchIsRenderedTemplate ==
    RecordBuilt =>
        /\ record.val.branch = render_str(econf.git.val.branch,
                                          EntryResolver(bentry))
        /\ record.val.branch \in {bentry.branch, <<>>}
        /\ record.val.project_id = bentry.project_id
        /\ record.val.fields = bentry.fields

\* a record with an empty target branch is written by new_file
C25_EmptyBranchWritten ==
    /\ RecordBuilt
    /\ bentry.branch = S_main
    /\ record.val.branch = <<>>
    /\ Len(gitCalls) = 1
    /\ gitCalls[1].args.call = "new_file"
    /\ gitCalls[1].args.branch = <<>>

(***************************************************************************)
(* Claims on SpecBuild: validate_branch and the builder's branch check      *)
(***************************************************************************)
\* the builder has run for a configuration with a git sub-config and an
\* entry on a non-empty branch
BranchChecked ==
    record # Unset /\ econf.git # None /\ bentry.branch # <<>>

\* C30: EntryConfig::validate_branch agrees with the record builder's
\* branch check: with a git sub-config and a non-empty requested branch b,
\* validate_branch(b) is true exactly when building a Record for an entry
\* on branch b does not fail with "Branch not allowed".
C30_ValidateBranchAgrees ==
    BranchChecked =>
        (validate_branch(econf, bentry.branch)
            <=> record # BranchNotAllowedError)

\* the two agree when the branch template has no placeholder
C30_AgreesWithoutPlaceholder ==
    (BranchChecked /\ PlaceholdersOf(econf.git.val.branch) = {}) =>
        (validate_branch(econf, bentry.branch)
            <=> record # BranchNotAllowedError)

\* branch template "{@branch}", request for "main": the builder accepts
\* the branch, validate_branch does not
C30_Disagreement ==
    /\ BranchChecked
    /\ econf.git.val.branch = T_at_branch
    /\ bentry.branch = S_main
    /\ record # BranchNotAllowedError
    /\ ~validate_branch(econf, bentry.branch)

(***************************************************************************)
(* Claims on SpecIsolation                                                  *)
(***************************************************************************)
\* process_fields on the entry e alone, up to the stage `upto`
AloneValidated(e) == validate_fields(e, fconf)
AloneGenerated(e) ==
    generate_fields(AloneValidated(e).val, fconf.extra, extraOrder)
AloneTransformed(e) ==
    transform_fields(AloneGenerated(e).val, fconf.transforms, overflowChecks)

\* the result of processing the entry e alone: the error of process_fields,
\* or what the record builder returns for the processed entry
ProcessedAlone(e, order) ==
    IF ~AloneValidated(e).ok THEN AloneValidated(e)
    ELSE IF AloneTransformed(e) = Panic THEN Panic
    ELSE IF ~AloneTransformed(e).ok THEN AloneTransformed(e)
    ELSE EntryConfigRender(econf, AloneTransformed(e).val, order, tableOk)

\* the entry a request holds at its stage, had it been processed alone
EntryAlone(r) ==
    CASE r.pc = "validate" -> r.input
      [] r.pc = "generate" -> AloneValidated(r.input).val
      [] r.pc = "transform" -> AloneGenerated(r.input).val
      [] r.pc = "render" -> AloneTransformed(r.input).val
      [] OTHER -> r.entry

C24_ConfigReadOnly ==
    [][econf' = econf /\ fconf' = fconf /\ extraOrder' = extraOrder]_vars

C24_WitnessInterleaved ==
    \E i, j \in DOMAIN reqs :
        /\ reqs[i].pc = "done" /\ reqs[i].result.ok
        /\ reqs[j].pc = "validate"
        /\ reqs[i].input # reqs[j].input

====
